---- MODULE Spec2Model ----
(***************************************************************************)
(* A model of the jscharting-angularjs binding layer: the jscChart         *)
(* directive's link function (src/src/core/chart.directive.js), the        *)
(* jscChartFactory registry (src/unnamed/part_004), the jscModuleLoader    *)
(* (src/unnamed/part_003) and jscPerformance's computeHash, debounce and   *)
(* throttle (src/unnamed/part_005), together with the environment          *)
(* they talk to: the JSCharting engine, the $timeout queue, the script     *)
(* loader and the AngularJS digest that runs the watchers.                 *)
(***************************************************************************)
EXTENDS Integers, Sequences, FiniteSets, TLC

(***************************************************************************)
(* Bounds of the model.                                                    *)
(***************************************************************************)
\* how many binding changes (watcher notifications) the parent scope makes
MaxChanges == 3
\* how many different non-empty jsc-options objects the parent can bind
MaxOptions == 2
\* how many calls the application makes to jscChartFactory's API
MaxApiCalls == 4
\* how many different element ids the application passes as a target
MaxTargets == 1

(***************************************************************************)
(* JavaScript values.  A value is a record of its typeof tag and its text  *)
(* (JSON text for an object, the string form for a primitive).             *)
(***************************************************************************)
\* JS null, for a variable that holds a chart handle
NULL == 0
\* no registry id: chart.__jscAngularId is undefined
NoId == <<"", 0>>
Undefined == [tag |-> "undefined", text |-> ""]
\* a key that a partial configuration object does not carry
Absent == [tag |-> "absent", text |-> ""]
Null == [tag |-> "null", text |-> "null"]
Obj(n) == [tag |-> "object", text |-> IF n = 1 THEN "{a:1}" ELSE IF n = 2 THEN "{a:2}" ELSE "{a:3}"]
OptionValues == {Undefined, Null} \cup {Obj(n) : n \in 1..MaxOptions}
SeriesValues == {Undefined, Null, [tag |-> "object", text |-> "[{points:[1]}]"]}
PaletteValues == {Undefined, [tag |-> "string", text |-> "fiveColor"]}
MutedValues == {Undefined, [tag |-> "boolean", text |-> "true"]}
Types == {"line", "map"}

\* every chart the element can get: the first one and one per later change
Charts == 1..(MaxChanges + 1)

(***************************************************************************)
(* State.                                                                  *)
(***************************************************************************)
VARIABLES
  \* the link function's closure (chart.directive.js:93-99); debounceTimeout
  \* is TRUE once it holds a $timeout promise (live or stale), pendingUpdate
  \* is NoConfig while it is null
  chart, debounceTimeout, isInitialized, pendingUpdate,
  initializationInProgress, lastOptionsHash, lastSeriesHash,
  \* the isolate scope: bindings, the jsc-instance output, $$destroyed
  scope, scopeDestroyed,
  \* the element handed to link; true while element[0] is a DOM node
  elementNode,
  \* $timeout: the delayed (debounce) task and the zero-delay FIFO queue
  debounceTask, timeoutQueue,
  \* jscModuleLoader: loadedModules, and the promises of loadForType whose
  \* callbacks have not run yet, each with the config its initChart built
  loadedModules, loads,
  \* the engine: global JSC present, and every chart it has made
  jscAvailable, engine,
  \* jscChartFactory: the instances registry and chart.__jscAngularId
  instances, angularId, instanceCounter,
  \* what the outside observes: chart.options calls and console.error calls
  optionsCalls, consoleErrors,
  \* bookkeeping of the environment: the steps it has taken (binding
  \* changes, calls of the factory's API), the options value the parent
  \* bound while the chart was not yet initialized, and whether $destroy
  \* ran while a module script was still loading
  envSteps, earlyRequest, destroyedWhileLoading,
  \* exceptions of chart.options that left the directive's code uncaught
  \* (they reach $exceptionHandler through the digest or the $timeout turn)
  uncaught,
  \* the event bindings: whether jsc-on-click is bound (scope.onClick), how
  \* often the engine has invoked the wired handler, and the invocations of
  \* the user's callback
  onClick, engineEvents, userCalls,
  \* the last call of jscChartFactory.destroy by the application: whether
  \* the engine's chart.destroy() threw in it and what the call returned
  apiResult,
  \* jscEventService: the subscriptions made with on(), the emits whose
  \* $timeout has not fired, and the callback invocations; and the one
  \* processInChunks job of jscPerformance
  bus, chunkJob,
  \* jscPerformance: the clock in ticks, the pending timers of $timeout,
  \* the closure of one debounced function (timeout) and of one throttled
  \* function (inThrottle, lastArgs), and the calls and invocations so far
  now, timers, timeout, inThrottle, lastArgs, lastContext,
  debounceCalls, debounceInvoked, throttleCalls, throttleInvoked,
  \* jscModuleLoader used directly: the script elements of the document,
  \* the promises loadScript has returned, and the deferreds of
  \* jscChartFactory.create
  scripts, requests, deferreds,
  \* the JavaScript heap of the configuration objects (cells by address),
  \* the variables that hold references into it, and the last call of a
  \* configuration function with its arguments and result
  heap, roots, lastCall

closureVars == <<chart, debounceTimeout, isInitialized, pendingUpdate,
                 initializationInProgress, lastOptionsHash, lastSeriesHash>>
scopeVars == <<scope, scopeDestroyed, elementNode>>
timerVars == <<debounceTask, timeoutQueue>>
loaderVars == <<loadedModules, loads>>
engineVars == <<jscAvailable, engine>>
factoryVars == <<instances, angularId, instanceCounter>>
observerVars == <<optionsCalls, consoleErrors, uncaught>>
envVars == <<envSteps, earlyRequest, destroyedWhileLoading>>
eventVars == <<onClick, engineEvents, userCalls>>
utilVars == <<bus, chunkJob>>
apiVars == <<apiResult, utilVars>>
performanceVars == <<now, timers, timeout, inThrottle, lastArgs, lastContext,
                     debounceCalls, debounceInvoked, throttleCalls, throttleInvoked>>
loaderApiVars == <<scripts, requests, deferreds>>
configVars == <<heap, roots, lastCall>>
serviceVars == <<loaderApiVars, configVars>>
auxVars == <<eventVars, apiVars, performanceVars, serviceVars>>
vars == <<closureVars, scopeVars, timerVars, loaderVars, engineVars,
          factoryVars, observerVars, envVars, auxVars>>

(***************************************************************************)
(* Pure helpers.                                                           *)
(***************************************************************************)
\* jscPerformance.computeHash: 'null' for null and undefined, String(obj)
\* for a primitive, JSON.stringify(obj) for an object (obj.text), and
\* String(obj) = '[object Object]' when JSON.stringify throws (tag "cyclic")
computeHash(obj) ==
  IF obj.tag \in {"null", "undefined"} THEN "null"
  ELSE IF obj.tag \notin {"object", "cyclic"} THEN obj.text
  ELSE IF obj.tag = "cyclic" THEN "[object Object]"
  ELSE obj.text

\* jscModuleLoader's moduleMap, "" standing for no entry
moduleMap(type) == IF type = "map" THEN "modules/maps.js" ELSE ""

\* buildConfig of jscChart: the options with the attribute bindings on top
buildConfig(sc) ==
  [options |-> sc.options, series |-> sc.series, type |-> sc.type,
   palette |-> sc.palette, muted |-> sc.muted]

\* the partial configs the series, palette and muted watchers pass along
SeriesConfig(v) ==
  [options |-> Absent, series |-> v, type |-> "", palette |-> Absent, muted |-> Absent]
PaletteConfig(v) ==
  [options |-> Absent, series |-> Absent, type |-> "", palette |-> v, muted |-> Absent]
MutedConfig(v) ==
  [options |-> Absent, series |-> Absent, type |-> "", palette |-> Absent, muted |-> v]

\* one chart.options(config) call as the engine sees it
\* (ready: isInitialized at the time of the call; via: the calling path)
OptionsCall(c, config, ready, via) ==
  [chart |-> c, config |-> config, ready |-> ready, via |-> via]

\* the handle the engine's next JSC.chart(...) call returns
NewChart == Cardinality({c \in Charts : engine[c].status # "none"}) + 1

\* the targets of JSC.chart: the directive's element[0], or an element id
ElementTarget == <<"element", 0>>

\* createSync(target, options, callback): null when JSC is missing or
\* JSC.chart throws, else the new chart, whose ready callback is armed
createSyncFails(throws) == ~jscAvailable \/ throws
createSyncResult(throws) == IF createSyncFails(throws) THEN NULL ELSE NewChart
createSyncEngine(target, callback, throws) ==
  IF createSyncFails(throws) THEN engine
  ELSE [engine EXCEPT ![NewChart] =
          [status |-> "alive", readyCb |-> "armed", destroyCalls |-> 0,
           target |-> target, callback |-> callback]]
createSyncErrors(throws) ==
  IF createSyncFails(throws) THEN consoleErrors + 1 ELSE consoleErrors

\* generateId of the factory: 'jsc_' + (++instanceCounter) + '_' + Date.now()
generateId == <<"jsc", instanceCounter + 1>>

\* the registry after instances[id] = {chart: c, ...}
Registered(id, c) == [i \in DOMAIN instances \cup {id} |-> IF i = id THEN c ELSE instances[i]]
\* the registry after delete instances[id]
Unregistered(id) == [i \in DOMAIN instances \ {id} |-> instances[i]]

\* the engine after chart.destroy() on c
EngineDestroy(c) ==
  [engine EXCEPT ![c].status = "destroyed", ![c].destroyCalls = @ + 1]

\* the argument of jscChartFactory.destroy: a chart instance or an id
ByChart(c) == [kind |-> "chart", chart |-> c, id |-> NoId]
ById(id) == [kind |-> "id", chart |-> NULL, id |-> id]

\* jscChartFactory.destroy(idOrChart): the chart it resolves its argument to
DestroyedChart(x) ==
  IF x.kind = "id"
  THEN IF x.id \in DOMAIN instances THEN instances[x.id] ELSE NULL
  ELSE x.chart
\* jscChartFactory.destroy(idOrChart): the id it resolves its argument to
DestroyedId(x) ==
  IF x.kind = "id" THEN x.id
  ELSE IF x.chart = NULL THEN NoId ELSE angularId[x.chart]

\* a destroy that only untracks the chart and never calls chart.destroy()
FactoryDestroyEngine_NoEngineCall(x) == engine

\* jscChartFactory.destroy(idOrChart), the engine part: chart.destroy()
FactoryDestroyEngine(x) ==
  IF DestroyedChart(x) # NULL THEN EngineDestroy(DestroyedChart(x)) ELSE engine
\* a destroy that leaves the registry as it is
FactoryDestroyInstances_KeepsEntry(x) == instances

\* jscChartFactory.destroy(idOrChart), the registry part: the entry under
\* the id is deleted
FactoryDestroyInstances(x) ==
  IF DestroyedChart(x) # NULL /\ DestroyedId(x) # NoId
     /\ DestroyedId(x) \in DOMAIN instances
  THEN Unregistered(DestroyedId(x))
  ELSE instances

\* jscChartFactory.destroy(idOrChart), its return value: true when the
\* argument resolved to a chart, whatever chart.destroy() did
FactoryDestroyReturns(x) == DestroyedChart(x) # NULL

(***************************************************************************)
(* Init: the state link() leaves behind.  The watchers are registered and  *)
(* initChart() has run once: the config is built, the hashes are cached    *)
(* and loadForType(config.type) has returned its promise.                  *)
(***************************************************************************)
\* loadForType: a promise already resolved, or a script element loading
loadForType(type, loaded) ==
  IF moduleMap(type) # "" /\ moduleMap(type) \notin loaded
  THEN [status |-> "loading", module |-> moduleMap(type)]
  ELSE [status |-> "resolved", module |-> ""]

\* the promise with the config that the callbacks of initChart close over
Promise(type, loaded, config) ==
  [status |-> loadForType(type, loaded).status,
   module |-> loadForType(type, loaded).module, config |-> config]

\* a sequence without its i-th element
Without(seq, i) == SubSeq(seq, 1, i - 1) \o SubSeq(seq, i + 1, Len(seq))

\* a chart the engine has not made yet
NoChart == [status |-> "none", readyCb |-> "none", destroyCalls |-> 0,
            target |-> NoId, callback |-> "none"]
NoTask == [kind |-> "none", series |-> Absent]
NoConfig == [options |-> Absent, series |-> Absent, type |-> "", palette |-> Absent, muted |-> Absent]

\* no event binding, no call of the factory's API and no use of
\* jscPerformance yet
NoResult == [called |-> FALSE, threw |-> FALSE, returned |-> FALSE]
NoArgs == "none"
MaxSubscriptions == 2
Subscriptions == 1..MaxSubscriptions
\* no subscription, no emit; no processInChunks call
NoBus ==
  [subs |-> [s \in Subscriptions |-> "none"], pending |-> <<>>,
   calls |-> <<>>, late |-> {}]
NoJob == [phase |-> "idle"]
UtilsIdle == bus = NoBus /\ chunkJob = NoJob
EventsIdle == onClick = FALSE /\ engineEvents = 0 /\ userCalls = <<>>
PerformanceIdle ==
  /\ now = 0
  /\ timers = {}
  /\ timeout = NULL
  /\ inThrottle = FALSE
  /\ lastArgs = NoArgs
  /\ lastContext = NoArgs
  /\ debounceCalls = <<>>
  /\ debounceInvoked = <<>>
  /\ throttleCalls = <<>>
  /\ throttleInvoked = <<>>

(***************************************************************************)
(* Configuration objects.  A JavaScript value is a slot: a primitive with  *)
(* its text, null, undefined, or a reference to a heap cell; a cell is an  *)
(* object or an array with its own keys (an array's keys are its indices).  *)
(***************************************************************************)
Prim(t) == [kind |-> "prim", text |-> t, ref |-> 0]
NullSlot == [kind |-> "null", text |-> "null", ref |-> 0]
UndefinedSlot == [kind |-> "undefined", text |-> "undefined", ref |-> 0]
Ref(a) == [kind |-> "ref", text |-> "", ref |-> a]
NoFields == [k \in {} |-> UndefinedSlot]
Cell(isArray, fields) == [array |-> isArray, fields |-> fields]

\* angular.isObject: value !== null && typeof value === 'object'
isObject(s) == s.kind = "ref"

\* a JavaScript truthiness test on a slot (no empty string or 0 is used)
Truthy(s) == s.kind \in {"prim", "ref"} /\ s.text # "false"

\* obj[k] and obj[k] = s on the cell at address a
Get(h, a, k) == IF k \in DOMAIN h[a].fields THEN h[a].fields[k] ELSE UndefinedSlot
Put(h, a, k, s) ==
  [h EXCEPT ![a].fields =
     [j \in (DOMAIN h[a].fields) \cup {k} |-> IF j = k THEN s ELSE h[a].fields[j]]]

\* an object or array literal: its cells, the first one the literal's root,
\* references counted from the literal's first cell; evaluating it at a
\* heap of n cells allocates the cells after them
Shift(lit, n) ==
  [i \in DOMAIN lit |->
     Cell(lit[i].array,
          [k \in DOMAIN lit[i].fields |->
             IF lit[i].fields[k].kind = "ref"
             THEN Ref(lit[i].fields[k].ref + n) ELSE lit[i].fields[k]])]
Install(h, lit) == h \o Shift(lit, Len(h))

\* var defaults = { debug: false, animation: { duration: 400 } }
Defaults ==
  << Cell(FALSE, ("debug" :> Prim("false")) @@ ("animation" :> Ref(2))),
     Cell(FALSE, "duration" :> Prim("400")) >>

RootNames == {"defaults", "config", "options", "series", "override", "builder", "result"}
NoRoots == [r \in RootNames |-> IF r = "defaults" THEN Ref(1) ELSE UndefinedSlot]

\* the modules jscModuleLoader is asked for
Modules == {"modules/maps.js", "modules/types.js"}
\* no script element of a module is in the document
NoScript == [state |-> "none", appended |-> 0]
NoCall == [fn |-> "none"]
ServicesIdle ==
  /\ scripts = [m \in Modules |-> NoScript]
  /\ requests = <<>>
  /\ deferreds = <<>>
  /\ heap = Install(<< >>, Defaults)
  /\ roots = NoRoots
  /\ lastCall = NoCall

Init ==
  /\ chart = NULL
  /\ debounceTimeout = FALSE
  /\ isInitialized = FALSE
  /\ pendingUpdate = NoConfig
  /\ initializationInProgress = TRUE
  /\ scope \in [options : OptionValues \ {Null}, series : SeriesValues \ {Null},
                type : Types,
                palette : {Undefined}, muted : {Undefined}, chartInstance : {NULL}]
  /\ lastOptionsHash = computeHash(scope.options)
  /\ lastSeriesHash = computeHash(scope.series)
  /\ scopeDestroyed = FALSE
  /\ elementNode = TRUE
  /\ debounceTask = NoTask
  /\ timeoutQueue = <<>>
  /\ loadedModules = {}
  /\ loads = <<Promise(scope.type, {}, buildConfig(scope))>>
  /\ jscAvailable \in BOOLEAN
  /\ engine = [c \in Charts |-> NoChart]
  /\ instances = << >>
  /\ angularId = [c \in Charts |-> NoId]
  /\ instanceCounter = 0
  /\ optionsCalls = <<>>
  /\ consoleErrors = 0
  /\ envSteps = 0
  /\ earlyRequest = Absent
  /\ destroyedWhileLoading = FALSE
  /\ uncaught = FALSE
  /\ apiResult = NoResult
  /\ UtilsIdle
  /\ EventsIdle
  /\ PerformanceIdle
  /\ ServicesIdle

(***************************************************************************)
(* jscModuleLoader and the promise chain of initChart.                     *)
(***************************************************************************)
\* script.onload of loadScript: the module is recorded, the promise resolves
ScriptOnload(i) ==
  /\ loads[i].status = "loading"
  /\ loadedModules' = loadedModules \cup {loads[i].module}
  /\ loads' = [loads EXCEPT ![i].status = "resolved"]
  /\ UNCHANGED <<closureVars, scopeVars, timerVars, engineVars,
                 factoryVars, observerVars, envVars>>
  /\ UNCHANGED auxVars

\* script.onerror of loadScript: the promise is rejected
ScriptOnerror(i) ==
  /\ loads[i].status = "loading"
  /\ loads' = [loads EXCEPT ![i].status = "rejected"]
  /\ UNCHANGED <<closureVars, scopeVars, timerVars, loadedModules,
                 engineVars, factoryVars, observerVars, envVars>>
  /\ UNCHANGED auxVars

\* the then-callback of initChart: the element check, then
\* chart = jscChartFactory.createSync(element[0], config, callback)
ThenCallback(i) ==
  /\ loads[i].status = "resolved"
  /\ loads' = Without(loads, i)
  /\ IF ~elementNode
     THEN /\ initializationInProgress' = FALSE
          /\ UNCHANGED <<chart, engine, consoleErrors>>
     ELSE /\ UNCHANGED initializationInProgress
          /\ \E throws \in BOOLEAN :
               /\ chart' = createSyncResult(throws)
               /\ engine' = createSyncEngine(ElementTarget, "directive", throws)
               /\ consoleErrors' = createSyncErrors(throws)
  /\ UNCHANGED <<debounceTimeout, isInitialized, pendingUpdate, lastOptionsHash,
                 lastSeriesHash, scopeVars, timerVars, loadedModules,
                 jscAvailable, factoryVars, optionsCalls, uncaught, envVars>>
  /\ UNCHANGED auxVars

\* the catch-callback of initChart
CatchCallback(i) ==
  /\ loads[i].status = "rejected"
  /\ loads' = Without(loads, i)
  /\ consoleErrors' = consoleErrors + 1
  /\ initializationInProgress' = FALSE
  /\ UNCHANGED <<chart, debounceTimeout, isInitialized, pendingUpdate,
                 lastOptionsHash, lastSeriesHash, scopeVars, timerVars,
                 loadedModules, engineVars, factoryVars, optionsCalls, uncaught, envVars>>
  /\ UNCHANGED auxVars

(***************************************************************************)
(* The engine's ready callback and the two $timeout turns behind it.       *)
(***************************************************************************)
\* the engine calls the callback createSync or create gave to JSC.chart,
\* once per chart: the wrapper defers its work with $timeout
EngineReady(c) ==
  /\ engine[c].readyCb = "armed"
  /\ engine' = [engine EXCEPT ![c].readyCb = "fired"]
  /\ timeoutQueue' = Append(timeoutQueue,
       [fn |-> IF engine[c].callback = "create" THEN "create" ELSE "factory",
        chart |-> c])
  /\ UNCHANGED <<closureVars, scopeVars, debounceTask, loaderVars, jscAvailable,
                 factoryVars, observerVars, envVars>>
  /\ UNCHANGED auxVars

\* the id createSync's $timeout registers a chart under:
\* (typeof target === 'string' ? target : null) || generateId()
RegistryId(c) == IF engine[c].target[1] = "target" THEN engine[c].target ELSE generateId

\* createSync's $timeout: the chart enters the registry, then the callback
\* runs; the directive's callback defers its own work with $timeout
FactoryTimeout ==
  /\ timeoutQueue # <<>>
  /\ Head(timeoutQueue).fn = "factory"
  /\ LET c == Head(timeoutQueue).chart IN
       /\ instances' = Registered(RegistryId(c), c)
       /\ angularId' = [angularId EXCEPT ![c] = RegistryId(c)]
       /\ instanceCounter' = IF RegistryId(c) = generateId
                             THEN instanceCounter + 1 ELSE instanceCounter
       /\ timeoutQueue' = IF engine[c].callback = "directive"
                          THEN Append(Tail(timeoutQueue), [fn |-> "directive", chart |-> c])
                          ELSE Tail(timeoutQueue)
  /\ UNCHANGED <<closureVars, scopeVars, debounceTask, loaderVars, engineVars,
                 observerVars, envVars>>
  /\ UNCHANGED auxVars

\* updateChart(newConfig): held as pendingUpdate while there is no chart
updateChartPending(c, newConfig) == IF c = NULL THEN newConfig ELSE pendingUpdate
\* updateChart(newConfig): chart.options(newConfig) when there is a chart
updateChartCalls(c, newConfig, ready, via) ==
  IF c = NULL THEN optionsCalls
  ELSE Append(optionsCalls, OptionsCall(c, newConfig, ready, via))

\* a ready callback that applies the pending update and never clears it
DirectiveTimeout_KeepsPending ==
  /\ timeoutQueue # <<>>
  /\ Head(timeoutQueue).fn = "directive"
  /\ timeoutQueue' = Tail(timeoutQueue)
  /\ LET chartInstance == Head(timeoutQueue).chart IN
       IF chart = chartInstance
       THEN /\ scope' = [scope EXCEPT !.chartInstance = chartInstance]
            /\ isInitialized' = TRUE
            /\ initializationInProgress' = FALSE
            /\ optionsCalls' = IF pendingUpdate # NoConfig
                               THEN updateChartCalls(chart, pendingUpdate, TRUE, "pending")
                               ELSE optionsCalls
            /\ UNCHANGED pendingUpdate
       ELSE UNCHANGED <<scope, isInitialized, initializationInProgress,
                        optionsCalls, pendingUpdate>>
  /\ UNCHANGED <<chart, debounceTimeout, lastOptionsHash, lastSeriesHash,
                 scopeDestroyed, elementNode, debounceTask, loaderVars,
                 engineVars, factoryVars, consoleErrors, uncaught, envVars>>
  /\ UNCHANGED auxVars

\* the directive's $timeout in the ready callback
DirectiveTimeout ==
  /\ timeoutQueue # <<>>
  /\ Head(timeoutQueue).fn = "directive"
  /\ timeoutQueue' = Tail(timeoutQueue)
  /\ LET chartInstance == Head(timeoutQueue).chart IN
       IF chart = chartInstance
       THEN /\ scope' = [scope EXCEPT !.chartInstance = chartInstance]
            /\ isInitialized' = TRUE
            /\ initializationInProgress' = FALSE
            /\ IF pendingUpdate # NoConfig
               THEN /\ optionsCalls' = updateChartCalls(chart, pendingUpdate, TRUE, "pending")
                    /\ pendingUpdate' = NoConfig
               ELSE UNCHANGED <<optionsCalls, pendingUpdate>>
       ELSE UNCHANGED <<scope, isInitialized, initializationInProgress,
                        optionsCalls, pendingUpdate>>
  /\ UNCHANGED <<chart, debounceTimeout, lastOptionsHash, lastSeriesHash,
                 scopeDestroyed, elementNode, debounceTask, loaderVars,
                 engineVars, factoryVars, consoleErrors, uncaught, envVars>>
  /\ UNCHANGED auxVars

(***************************************************************************)
(* The watchers.  Each action is one digest in which the parent changed    *)
(* one binding: the binding takes its new value and the watcher's listener *)
(* runs.  A destroyed scope has no watchers.                               *)
(***************************************************************************)
\* scheduleUpdate, and the same steps inlined in the series watcher: the
\* timer held by debounceTimeout is cancelled and a new one is started
Scheduled(kind, v) == [kind |-> kind, series |-> v]

\* initChart() called with the scope as it is at the call: nothing while an
\* initialization is in progress, else the config is built, the hashes are
\* cached and the module load is started
initChart(sc) ==
  IF initializationInProgress
  THEN UNCHANGED <<initializationInProgress, lastOptionsHash, lastSeriesHash,
                   loads, earlyRequest>>
  ELSE /\ initializationInProgress' = TRUE
       /\ lastOptionsHash' = computeHash(sc.options)
       /\ lastSeriesHash' = computeHash(sc.series)
       /\ loads' = Append(loads, Promise(sc.type, loadedModules, buildConfig(sc)))
       /\ earlyRequest' = Absent

\* an options watcher that schedules an update without comparing hashes
OptionsChanged_AlwaysSchedules(v) ==
  /\ ~scopeDestroyed
  /\ envSteps < MaxChanges
  /\ v # scope.options
  /\ envSteps' = envSteps + 1
  /\ scope' = [scope EXCEPT !.options = v]
  /\ IF ~isInitialized
     THEN /\ earlyRequest' = v
          /\ UNCHANGED <<lastOptionsHash, debounceTask, debounceTimeout>>
     ELSE /\ UNCHANGED earlyRequest
          /\ lastOptionsHash' = computeHash(v)
          /\ debounceTask' = Scheduled("options", Absent)
          /\ debounceTimeout' = TRUE
  /\ UNCHANGED <<chart, isInitialized, pendingUpdate, initializationInProgress,
                 lastSeriesHash, scopeDestroyed, elementNode, timeoutQueue,
                 loaderVars, engineVars, factoryVars, observerVars,
                 destroyedWhileLoading>>
  /\ UNCHANGED auxVars

\* scope.$watch('options', ..., true)
OptionsChanged(v) ==
  /\ ~scopeDestroyed
  /\ envSteps < MaxChanges
  /\ v # scope.options
  /\ envSteps' = envSteps + 1
  /\ scope' = [scope EXCEPT !.options = v]
  /\ IF ~isInitialized
     THEN /\ earlyRequest' = v
          /\ UNCHANGED <<lastOptionsHash, debounceTask, debounceTimeout>>
     ELSE /\ UNCHANGED earlyRequest
          /\ IF computeHash(v) # lastOptionsHash
             THEN /\ lastOptionsHash' = computeHash(v)
                  /\ debounceTask' = Scheduled("options", Absent)
                  /\ debounceTimeout' = TRUE
             ELSE UNCHANGED <<lastOptionsHash, debounceTask, debounceTimeout>>
  /\ UNCHANGED <<chart, isInitialized, pendingUpdate, initializationInProgress,
                 lastSeriesHash, scopeDestroyed, elementNode, timeoutQueue,
                 loaderVars, engineVars, factoryVars, observerVars,
                 destroyedWhileLoading>>
  /\ UNCHANGED auxVars

\* scope.$watch('series', ..., true)
SeriesChanged(v) ==
  /\ ~scopeDestroyed
  /\ envSteps < MaxChanges
  /\ v # scope.series
  /\ envSteps' = envSteps + 1
  /\ scope' = [scope EXCEPT !.series = v]
  /\ IF ~isInitialized \/ chart = NULL
     THEN UNCHANGED <<lastSeriesHash, debounceTask, debounceTimeout>>
     ELSE IF computeHash(v) # lastSeriesHash
          THEN /\ lastSeriesHash' = computeHash(v)
               /\ debounceTask' = Scheduled("series", v)
               /\ debounceTimeout' = TRUE
          ELSE UNCHANGED <<lastSeriesHash, debounceTask, debounceTimeout>>
  /\ UNCHANGED <<chart, isInitialized, pendingUpdate, initializationInProgress,
                 lastOptionsHash, scopeDestroyed, elementNode, timeoutQueue,
                 loaderVars, engineVars, factoryVars, observerVars, earlyRequest,
                 destroyedWhileLoading>>
  /\ UNCHANGED auxVars

\* scope.$watch('type'): a type change when Ready destroys the chart and
\* runs initChart() again
TypeChanged(t) ==
  /\ ~scopeDestroyed
  /\ envSteps < MaxChanges
  /\ t # scope.type
  /\ envSteps' = envSteps + 1
  /\ IF isInitialized /\ ~initializationInProgress
     THEN /\ IF chart # NULL
             THEN /\ engine' = FactoryDestroyEngine(ByChart(chart))
                  /\ instances' = FactoryDestroyInstances(ByChart(chart))
                  /\ chart' = NULL
                  /\ scope' = [scope EXCEPT !.type = t, !.chartInstance = NULL]
                  /\ isInitialized' = FALSE
             ELSE /\ scope' = [scope EXCEPT !.type = t]
                  /\ UNCHANGED <<engine, instances, chart, isInitialized>>
          /\ initChart(scope')
     ELSE /\ scope' = [scope EXCEPT !.type = t]
          /\ UNCHANGED <<engine, instances, chart, isInitialized,
                         initializationInProgress, lastOptionsHash,
                         lastSeriesHash, loads, earlyRequest>>
  /\ UNCHANGED <<debounceTimeout, pendingUpdate, scopeDestroyed, elementNode,
                 timerVars, loadedModules, jscAvailable, angularId,
                 instanceCounter, observerVars, destroyedWhileLoading>>
  /\ UNCHANGED auxVars

\* scope.$watch('palette')
PaletteChanged(v) ==
  /\ ~scopeDestroyed
  /\ envSteps < MaxChanges
  /\ v # scope.palette
  /\ envSteps' = envSteps + 1
  /\ scope' = [scope EXCEPT !.palette = v]
  /\ IF chart # NULL
     THEN /\ optionsCalls' = Append(optionsCalls,
               OptionsCall(chart, PaletteConfig(v), isInitialized, "palette"))
          /\ \E throws \in BOOLEAN : uncaught' = (uncaught \/ throws)
     ELSE UNCHANGED <<optionsCalls, uncaught>>
  /\ UNCHANGED <<closureVars, scopeDestroyed, elementNode, timerVars, loaderVars,
                 engineVars, factoryVars, consoleErrors, earlyRequest,
                 destroyedWhileLoading>>
  /\ UNCHANGED auxVars

\* scope.$watch('muted')
MutedChanged(v) ==
  /\ ~scopeDestroyed
  /\ envSteps < MaxChanges
  /\ v # scope.muted
  /\ envSteps' = envSteps + 1
  /\ scope' = [scope EXCEPT !.muted = v]
  /\ IF chart # NULL
     THEN /\ optionsCalls' = Append(optionsCalls,
               OptionsCall(chart, MutedConfig(v), isInitialized, "muted"))
          /\ \E throws \in BOOLEAN : uncaught' = (uncaught \/ throws)
     ELSE UNCHANGED <<optionsCalls, uncaught>>
  /\ UNCHANGED <<closureVars, scopeDestroyed, elementNode, timerVars, loaderVars,
                 engineVars, factoryVars, consoleErrors, earlyRequest,
                 destroyedWhileLoading>>
  /\ UNCHANGED auxVars

(***************************************************************************)
(* The debounce timer and the teardown.                                    *)
(***************************************************************************)
\* newVal ? newVal.slice() : [] of the series timer
SliceOrEmpty(v) == IF v \in {Undefined, Null} THEN [tag |-> "object", text |-> "[]"] ELSE v

\* the debounce timer fires: scheduleUpdate's callback builds the config
\* and calls updateChart, whose try/catch holds what chart.options throws;
\* the series watcher's callback calls chart.options outside any try, and
\* the call itself is a TypeError when chart is null
DebounceFire ==
  /\ debounceTask.kind # "none"
  /\ debounceTask' = NoTask
  /\ IF debounceTask.kind = "options"
     THEN /\ pendingUpdate' = updateChartPending(chart, buildConfig(scope))
          /\ optionsCalls' = updateChartCalls(chart, buildConfig(scope), isInitialized, "debounce")
          /\ UNCHANGED uncaught
     ELSE /\ UNCHANGED pendingUpdate
          /\ IF chart # NULL
             THEN /\ optionsCalls' = Append(optionsCalls,
                        OptionsCall(chart, SeriesConfig(SliceOrEmpty(debounceTask.series)),
                                    isInitialized, "series"))
                  /\ \E throws \in BOOLEAN : uncaught' = (uncaught \/ throws)
             ELSE /\ UNCHANGED optionsCalls
                  /\ uncaught' = TRUE
  /\ UNCHANGED <<chart, debounceTimeout, isInitialized, initializationInProgress,
                 lastOptionsHash, lastSeriesHash, scopeVars, timeoutQueue,
                 loaderVars, engineVars, factoryVars, consoleErrors, envVars>>
  /\ UNCHANGED auxVars

\* a $destroy handler that destroys the chart and keeps its handle
ScopeDestroy_KeepsHandle ==
  /\ scopeDestroyed' = TRUE
  /\ destroyedWhileLoading' =
       (destroyedWhileLoading \/ \E i \in DOMAIN loads : loads[i].status = "loading")
  /\ debounceTask' = IF debounceTimeout THEN NoTask ELSE debounceTask
  /\ IF chart # NULL
     THEN /\ engine' = FactoryDestroyEngine(ByChart(chart))
          /\ instances' = FactoryDestroyInstances(ByChart(chart))
     ELSE UNCHANGED <<engine, instances>>
  /\ UNCHANGED chart
  /\ scope' = [scope EXCEPT !.chartInstance = NULL]
  /\ isInitialized' = FALSE
  /\ UNCHANGED <<debounceTimeout, pendingUpdate, initializationInProgress,
                 lastOptionsHash, lastSeriesHash, elementNode, timeoutQueue,
                 loaderVars, jscAvailable, angularId, instanceCounter,
                 observerVars, envSteps, earlyRequest>>
  /\ UNCHANGED auxVars

\* scope.$on('$destroy'): the handler can be run again on a destroyed scope
ScopeDestroy ==
  /\ scopeDestroyed' = TRUE
  /\ destroyedWhileLoading' =
       (destroyedWhileLoading \/ \E i \in DOMAIN loads : loads[i].status = "loading")
  /\ debounceTask' = IF debounceTimeout THEN NoTask ELSE debounceTask
  /\ IF chart # NULL
     THEN /\ engine' = FactoryDestroyEngine(ByChart(chart))
          /\ instances' = FactoryDestroyInstances(ByChart(chart))
          /\ chart' = NULL
     ELSE UNCHANGED <<engine, instances, chart>>
  /\ scope' = [scope EXCEPT !.chartInstance = NULL]
  /\ isInitialized' = FALSE
  /\ UNCHANGED <<debounceTimeout, pendingUpdate, initializationInProgress,
                 lastOptionsHash, lastSeriesHash, elementNode, timeoutQueue,
                 loaderVars, jscAvailable, angularId, instanceCounter,
                 observerVars, envSteps, earlyRequest>>
  /\ UNCHANGED auxVars

(***************************************************************************)
(* The jscChart specification: one mounted <jsc-chart> element.            *)
(***************************************************************************)
Next ==
  \/ \E i \in DOMAIN loads : ScriptOnload(i)
  \/ \E i \in DOMAIN loads : ScriptOnerror(i)
  \/ \E i \in DOMAIN loads : ThenCallback(i)
  \/ \E i \in DOMAIN loads : CatchCallback(i)
  \/ \E c \in Charts : EngineReady(c)
  \/ FactoryTimeout
  \/ DirectiveTimeout
  \/ \E v \in OptionValues : OptionsChanged(v)
  \/ \E v \in SeriesValues : SeriesChanged(v)
  \/ \E t \in Types : TypeChanged(t)
  \/ \E v \in PaletteValues : PaletteChanged(v)
  \/ \E v \in MutedValues : MutedChanged(v)
  \/ DebounceFire
  \/ ScopeDestroy

Spec == Init /\ [][Next]_vars

(***************************************************************************)
(* The jscChartFactory specification: application code uses the factory's  *)
(* API directly (createSync, destroy by chart instance or by id); no       *)
(* directive is mounted.                                                   *)
(***************************************************************************)
StringTargets == {<<"target", k>> : k \in 1..MaxTargets}

InitFactory ==
  /\ chart = NULL
  /\ debounceTimeout = FALSE
  /\ isInitialized = FALSE
  /\ pendingUpdate = NoConfig
  /\ initializationInProgress = FALSE
  /\ scope = [options |-> Undefined, series |-> Undefined, type |-> "line",
              palette |-> Undefined, muted |-> Undefined, chartInstance |-> NULL]
  /\ lastOptionsHash = "null"
  /\ lastSeriesHash = "null"
  /\ scopeDestroyed = TRUE
  /\ elementNode = FALSE
  /\ debounceTask = NoTask
  /\ timeoutQueue = <<>>
  /\ loadedModules = {}
  /\ loads = <<>>
  /\ jscAvailable \in BOOLEAN
  /\ engine = [c \in Charts |-> NoChart]
  /\ instances = << >>
  /\ angularId = [c \in Charts |-> NoId]
  /\ instanceCounter = 0
  /\ optionsCalls = <<>>
  /\ consoleErrors = 0
  /\ envSteps = 0
  /\ earlyRequest = Absent
  /\ destroyedWhileLoading = FALSE
  /\ uncaught = FALSE
  /\ apiResult = NoResult
  /\ UtilsIdle
  /\ EventsIdle
  /\ PerformanceIdle
  /\ ServicesIdle

\* the application calls jscChartFactory.createSync(target, options)
AppCreateSync(target) ==
  /\ envSteps < MaxApiCalls
  /\ NewChart \in Charts
  /\ envSteps' = envSteps + 1
  /\ \E throws \in BOOLEAN :
       /\ engine' = createSyncEngine(target, "none", throws)
       /\ consoleErrors' = createSyncErrors(throws)
  /\ UNCHANGED <<closureVars, scopeVars, timerVars, loaderVars, jscAvailable,
                 factoryVars, optionsCalls, uncaught, earlyRequest, destroyedWhileLoading>>
  /\ UNCHANGED auxVars

\* what the application can pass to destroy: a chart it got from createSync,
\* or an id (one in the registry, one a chart carries, or an element id)
DestroyArgs ==
  {ByChart(c) : c \in {d \in Charts : engine[d].status # "none"}}
    \cup {ById(id) : id \in (DOMAIN instances \cup StringTargets
                              \cup ({angularId[c] : c \in Charts} \ {NoId}))}

\* the application calls jscChartFactory.destroy(idOrChart)
AppDestroy(x) ==
  /\ envSteps < MaxApiCalls
  /\ envSteps' = envSteps + 1
  /\ engine' = FactoryDestroyEngine(x)
  /\ instances' = FactoryDestroyInstances(x)
  /\ \E throws \in BOOLEAN :
       apiResult' = [called |-> TRUE,
                     threw |-> (throws /\ DestroyedChart(x) # NULL),
                     returned |-> FactoryDestroyReturns(x)]
  /\ UNCHANGED <<closureVars, scopeVars, timerVars, loaderVars, jscAvailable,
                 angularId, instanceCounter, observerVars, earlyRequest,
                 destroyedWhileLoading, eventVars, performanceVars, serviceVars,
                 utilVars>>

\* a destroyAll whose loop ends at the first chart.destroy() that throws
RECURSIVE destroyAll_AbortsOnThrow(_, _, _, _)
destroyAll_AbortsOnThrow(reg, eng, ids, throwers) ==
  IF ids = {} THEN [instances |-> reg, engine |-> eng]
  ELSE LET id == CHOOSE i \in ids : TRUE
       IN IF id \notin DOMAIN reg
          THEN destroyAll_AbortsOnThrow(reg, eng, ids \ {id}, throwers)
          ELSE IF id \in throwers
          THEN [instances |-> reg,
                engine |-> [eng EXCEPT ![reg[id]].status = "destroyed",
                                       ![reg[id]].destroyCalls = @ + 1]]
          ELSE destroyAll_AbortsOnThrow(
                 [i \in DOMAIN reg \ {id} |-> reg[i]],
                 [eng EXCEPT ![reg[id]].status = "destroyed",
                             ![reg[id]].destroyCalls = @ + 1],
                 ids \ {id}, throwers)

\* jscChartFactory.destroyAll(): self.destroy(id) for each id the registry
\* held at the call; destroy(id) calls chart.destroy() inside try/catch and
\* deletes the entry, whether or not the call threw
RECURSIVE destroyAll(_, _, _, _)
destroyAll(reg, eng, ids, throwers) ==
  IF ids = {} THEN [instances |-> reg, engine |-> eng]
  ELSE LET id == CHOOSE i \in ids : TRUE
       IN IF id \notin DOMAIN reg
          THEN destroyAll(reg, eng, ids \ {id}, throwers)
          ELSE destroyAll([i \in DOMAIN reg \ {id} |-> reg[i]],
                          [eng EXCEPT ![reg[id]].status = "destroyed",
                                      ![reg[id]].destroyCalls = @ + 1],
                          ids \ {id}, throwers)

\* jscChartFactory.getCount()
getCount == Cardinality(DOMAIN instances)

\* the application calls jscChartFactory.destroyAll(); chart.destroy()
\* throws for the charts under the ids in throwers
AppDestroyAll ==
  /\ envSteps < MaxApiCalls
  /\ envSteps' = envSteps + 1
  /\ \E throwers \in SUBSET (DOMAIN instances) :
       /\ engine' = destroyAll(instances, engine, DOMAIN instances, throwers).engine
       /\ instances' = destroyAll(instances, engine, DOMAIN instances, throwers).instances
       /\ apiResult' = [called |-> TRUE, threw |-> throwers # {}, returned |-> FALSE]
  /\ UNCHANGED <<closureVars, scopeVars, timerVars, loaderVars, jscAvailable,
                 angularId, instanceCounter, observerVars, earlyRequest,
                 destroyedWhileLoading, eventVars, performanceVars, serviceVars,
                 utilVars>>

NextFactory ==
  \/ \E target \in {ElementTarget} \cup StringTargets : AppCreateSync(target)
  \/ \E c \in Charts : EngineReady(c)
  \/ FactoryTimeout
  \/ \E x \in DestroyArgs : AppDestroy(x)
  \/ AppDestroyAll

SpecFactory == InitFactory /\ [][NextFactory]_vars

\* C2: however often jscChartFactory.destroy is called on a chart, by id or
\* by instance, the engine's chart.destroy() is invoked on it at most once:
\* a second call invokes it zero times.
C2_FactoryDestroyIdempotent == \A c \in Charts : engine[c].destroyCalls <= 1

(***************************************************************************)
(* Properties of the jscChart directive (checked under Spec).              *)
(***************************************************************************)
\* the charts the engine has created and not destroyed
AliveCharts == {c \in Charts : engine[c].status = "alive"}

\* the state the $destroy handler leaves: no chart handle, not initialized,
\* no jsc-instance output, no live debounce timer
TornDown ==
  /\ scopeDestroyed
  /\ chart = NULL
  /\ ~isInitialized
  /\ scope.chartInstance = NULL
  /\ debounceTask = NoTask

\* C1: every run of the $destroy handler ends in the torn-down state, and a
\* run that starts in the state a previous run left changes nothing: the
\* end state is the same and the engine's chart.destroy() is not called.
C1_TeardownIdempotent ==
  [][ScopeDestroy => (TornDown' /\ (TornDown => (engine' = engine /\ UNCHANGED vars)))]_vars

\* C1 witness: a registered, ready chart has been torn down by one
\* chart.destroy() call, and the scope is in the torn-down state
C1_Witness ==
  /\ TornDown
  /\ \E c \in Charts : /\ engine[c].destroyCalls = 1
                       /\ angularId[c] # NoId
                       /\ engine[c].status = "destroyed"

\* C3: when the ready callback makes the directive Ready and the parent
\* changed jsc-options while it was Loading or Creating, that step calls
\* chart.options exactly once, with the options the parent asked for.
C3_EarlyUpdateAppliedOnReady ==
  [][(DirectiveTimeout /\ ~isInitialized /\ isInitialized' /\ earlyRequest # Absent)
       => /\ Len(optionsCalls') = Len(optionsCalls) + 1
          /\ optionsCalls'[Len(optionsCalls')].chart = chart
          /\ optionsCalls'[Len(optionsCalls')].config.options = earlyRequest]_vars

InFlight == Len(loads) + (IF chart # NULL /\ ~isInitialized THEN 1 ELSE 0)

\* C5: at most one created and not destroyed engine chart exists, at most
\* one initialization is in flight, and one is in flight only while
\* initializationInProgress is set, which makes initChart do nothing.
C5_OneChartOneInitialization ==
  /\ Cardinality(AliveCharts) <= 1
  /\ InFlight <= 1
  /\ (InFlight = 1 => initializationInProgress)

\* C5 witness: a second initialization, started by a jsc-type change, is in
\* flight after the first chart was destroyed
C5_Witness ==
  /\ InFlight = 1
  /\ \E c \in Charts : engine[c].status = "destroyed"
  /\ ~scopeDestroyed

\* C6: once the directive was destroyed while its module script was still
\* loading, the load that resolves later creates no engine instance: no
\* chart of the element is alive.
C6_NoChartAfterDestroy == destroyedWhileLoading => AliveCharts = {}

\* C7: when JSC.chart throws and createSync returns null in the then-callback, the directive is
\* Unmounted afterwards (chart null, isInitialized false,
\* initializationInProgress false), the registry is as before and one
\* error was reported.
C7_CreationFailureLeavesUnmounted ==
  [][(\E i \in DOMAIN loads : ThenCallback(i) /\ elementNode /\ jscAvailable
                                 /\ chart' = NULL)
       => /\ ~isInitialized'
          /\ ~initializationInProgress'
          /\ instances' = instances
          /\ consoleErrors' = consoleErrors + 1]_vars

\* C8: when an initialization fails (the load is rejected or createSync
\* returns null) no pendingUpdate is recorded and no chart handle is held.
C8_FailureLeavesNoPendingUpdate ==
  [][((\E i \in DOMAIN loads : CatchCallback(i))
        \/ (\E i \in DOMAIN loads : ThenCallback(i) /\ elementNode /\ chart' = NULL))
       => (pendingUpdate' = NoConfig /\ chart' = NULL)]_vars

\* C9: every chart.options call is made on a chart whose ready callback
\* has completed (isInitialized was true at the call).
C9_OptionsOnlyWhenReady == \A i \in DOMAIN optionsCalls : optionsCalls[i].ready

\* C10: a jsc-type change that re-creates the chart while Ready destroys
\* the current chart exactly once and leaves no debounce timer pending and
\* no pendingUpdate when Loading is re-entered.
C10_RecreateClearsPendingState ==
  [][((\E t \in Types : TypeChanged(t)) /\ isInitialized /\ ~initializationInProgress
        /\ chart # NULL)
       => /\ engine'[chart].destroyCalls = 1
          /\ engine'[chart].status = "destroyed"
          /\ debounceTask' = NoTask
          /\ pendingUpdate' = NoConfig]_vars

\* C11: the registry never holds a dead handle: every chart recorded in
\* instances (what get, getAll and getCount read) has been created and has
\* not been destroyed.
C11_RegistryHoldsOnlyLiveCharts ==
  \A id \in DOMAIN instances : engine[instances[id]].status = "alive"

(***************************************************************************)
(* The event bridge: the click handler wireEvents puts into the config     *)
(* when jsc-on-click is bound.  The wrappers of jscEventService            *)
(* (wrapCallback, wrapPointCallback, wrapSeriesCallback) have the same     *)
(* body: a $timeout whose turn calls the user's callback.                  *)
(***************************************************************************)
MaxEvents == 2

\* one invocation of the user's callback: the chart in the payload (the
\* closure's chart when the turn runs), the chart whose handler was
\* invoked, and whether the scope was destroyed by then
UserCall(c) == [chart |-> chart, source |-> c, destroyed |-> scopeDestroyed]

\* a handler that calls the user's callback inside the engine's call
EngineEvent_Synchronous(c) ==
  /\ onClick
  /\ engine[c].status = "alive"
  /\ engine[c].callback = "directive"
  /\ engineEvents < MaxEvents
  /\ engineEvents' = engineEvents + 1
  /\ userCalls' = Append(userCalls, UserCall(c))
  /\ UNCHANGED <<closureVars, scopeVars, timerVars, loaderVars, engineVars,
                 factoryVars, observerVars, envVars, onClick, apiVars, serviceVars,
                 performanceVars>>

\* the engine invokes config.events.click of a chart the directive made:
\* the handler only queues a $timeout
EngineEvent(c) ==
  /\ onClick
  /\ engine[c].status = "alive"
  /\ engine[c].callback = "directive"
  /\ engineEvents < MaxEvents
  /\ engineEvents' = engineEvents + 1
  /\ timeoutQueue' = Append(timeoutQueue, [fn |-> "event", chart |-> c])
  /\ UNCHANGED <<closureVars, scopeVars, debounceTask, loaderVars, engineVars,
                 factoryVars, observerVars, envVars, onClick, userCalls,
                 apiVars, serviceVars, performanceVars>>

\* the handler's $timeout turn: scope.onClick({event: e, chart: chart})
EventTimeout ==
  /\ timeoutQueue # <<>>
  /\ Head(timeoutQueue).fn = "event"
  /\ timeoutQueue' = Tail(timeoutQueue)
  /\ userCalls' = Append(userCalls, UserCall(Head(timeoutQueue).chart))
  /\ UNCHANGED <<closureVars, scopeVars, debounceTask, loaderVars, engineVars,
                 factoryVars, observerVars, envVars, onClick, engineEvents,
                 apiVars, serviceVars, performanceVars>>

\* a mounted <jsc-chart> whose only changing binding is jsc-type, with or
\* without jsc-on-click
InitEvents ==
  /\ chart = NULL
  /\ debounceTimeout = FALSE
  /\ isInitialized = FALSE
  /\ pendingUpdate = NoConfig
  /\ initializationInProgress = TRUE
  /\ scope \in [options : {Undefined}, series : {Undefined}, type : Types,
                palette : {Undefined}, muted : {Undefined}, chartInstance : {NULL}]
  /\ lastOptionsHash = computeHash(scope.options)
  /\ lastSeriesHash = computeHash(scope.series)
  /\ scopeDestroyed = FALSE
  /\ elementNode = TRUE
  /\ debounceTask = NoTask
  /\ timeoutQueue = <<>>
  /\ loadedModules = {}
  /\ loads = <<Promise(scope.type, {}, buildConfig(scope))>>
  /\ jscAvailable \in BOOLEAN
  /\ engine = [c \in Charts |-> NoChart]
  /\ instances = << >>
  /\ angularId = [c \in Charts |-> NoId]
  /\ instanceCounter = 0
  /\ optionsCalls = <<>>
  /\ consoleErrors = 0
  /\ envSteps = 0
  /\ earlyRequest = Absent
  /\ destroyedWhileLoading = FALSE
  /\ uncaught = FALSE
  /\ apiResult = NoResult
  /\ UtilsIdle
  /\ onClick \in BOOLEAN
  /\ engineEvents = 0
  /\ userCalls = <<>>
  /\ PerformanceIdle
  /\ ServicesIdle

NextEvents ==
  \/ \E i \in DOMAIN loads : ScriptOnload(i)
  \/ \E i \in DOMAIN loads : ScriptOnerror(i)
  \/ \E i \in DOMAIN loads : ThenCallback(i)
  \/ \E i \in DOMAIN loads : CatchCallback(i)
  \/ \E c \in Charts : EngineReady(c)
  \/ FactoryTimeout
  \/ DirectiveTimeout
  \/ \E t \in Types : TypeChanged(t)
  \/ \E c \in Charts : EngineEvent(c)
  \/ EventTimeout
  \/ ScopeDestroy

SpecEvents == InitEvents /\ [][NextEvents]_vars

\* the event deliveries still queued in $timeout
PendingEvents == Cardinality({i \in DOMAIN timeoutQueue : timeoutQueue[i].fn = "event"})

\* C12: the user's callback is never invoked once the directive's teardown
\* has run: an event whose delivery is pending at $destroy, or that arrives
\* later, is discarded.
C12_NoCallbackAfterTeardown ==
  \A i \in DOMAIN userCalls : ~userCalls[i].destroyed

\* C13: an invocation of the wired handler by the engine never calls the
\* user's callback inside the engine's call, it queues one $timeout turn;
\* that turn calls the user's callback exactly once; so every handler
\* invocation is either still queued or was delivered exactly once.
C13_EventDeliveredOnceDeferred ==
  /\ [][(\E c \in Charts : EngineEvent(c))
          => /\ userCalls' = userCalls
             /\ Len(timeoutQueue') = Len(timeoutQueue) + 1
             /\ timeoutQueue'[Len(timeoutQueue')].fn = "event"]_vars
  /\ [][EventTimeout => Len(userCalls') = Len(userCalls) + 1]_vars
  /\ [][(Len(userCalls') # Len(userCalls)) => EventTimeout]_vars
  /\ [](Len(userCalls) + PendingEvents = engineEvents)

\* C13 witness: the engine invoked the handler twice while the directive
\* was mounted and Ready, and both invocations were delivered
C13_Witness ==
  /\ ~scopeDestroyed
  /\ isInitialized
  /\ engineEvents = 2
  /\ Len(userCalls) = 2
  /\ \A i \in DOMAIN userCalls : userCalls[i].chart = chart /\ ~userCalls[i].destroyed

(***************************************************************************)
(* jscPerformance.debounce and jscPerformance.throttle: one function made  *)
(* by debounce(func, Wait), without the immediate flag, and one made by    *)
(* throttle(func, Limit), called by application code while the clock       *)
(* runs.  A $timeout timer runs in the tick it is due in, before anything  *)
(* else happens in that tick.                                              *)
(***************************************************************************)
MaxTime == 5
MaxCalls == 3
\* the wait of the debounced and the limit of the throttled function, in ticks
Wait == 2
Limit == 2
\* what a call passes: its this and its arguments
Contexts == {"ctx1", "ctx2"}
ArgValues == {"x", "y"}

\* $timeout(fn, delay) started now by the owner's call number id
Timer(owner, id, delay, ctx, a) ==
  [owner |-> owner, id |-> id, due |-> now + delay, context |-> ctx, args |-> a]
TimerDue == \E t \in timers : t.due <= now
\* func.apply(context, args) at the current tick
Invocation(ctx, a) == [context |-> ctx, args |-> a, at |-> now]
ApiCalls == Len(debounceCalls) + Len(throttleCalls)

\* the clock advances by one tick
Tick ==
  /\ now < MaxTime
  /\ ~TimerDue
  /\ now' = now + 1
  /\ UNCHANGED <<closureVars, scopeVars, timerVars, loaderVars, engineVars,
                 factoryVars, observerVars, envVars, eventVars, apiVars, serviceVars,
                 timers, timeout, inThrottle, lastArgs, lastContext,
                 debounceCalls, debounceInvoked, throttleCalls, throttleInvoked>>

\* a debounced function that starts a new timer without cancelling the old
DebouncedCall_NoCancel(ctx, a) ==
  /\ ApiCalls < MaxCalls
  /\ ~TimerDue
  /\ timers' = timers \cup {Timer("debounce", Len(debounceCalls) + 1, Wait, ctx, a)}
  /\ timeout' = Len(debounceCalls) + 1
  /\ debounceCalls' = Append(debounceCalls, Invocation(ctx, a))
  /\ UNCHANGED <<closureVars, scopeVars, timerVars, loaderVars, engineVars,
                 factoryVars, observerVars, envVars, eventVars, apiVars, serviceVars,
                 now, inThrottle, lastArgs, lastContext,
                 debounceInvoked, throttleCalls, throttleInvoked>>

\* a call of the debounced function: the pending timer is cancelled, a new
\* one is started for `later`, which closes over this call's this and
\* arguments
DebouncedCall(ctx, a) ==
  /\ ApiCalls < MaxCalls
  /\ ~TimerDue
  /\ timers' = {t \in timers : ~(t.owner = "debounce" /\ timeout # NULL /\ t.id = timeout)}
                 \cup {Timer("debounce", Len(debounceCalls) + 1, Wait, ctx, a)}
  /\ timeout' = Len(debounceCalls) + 1
  /\ debounceCalls' = Append(debounceCalls, Invocation(ctx, a))
  /\ UNCHANGED <<closureVars, scopeVars, timerVars, loaderVars, engineVars,
                 factoryVars, observerVars, envVars, eventVars, apiVars, serviceVars,
                 now, inThrottle, lastArgs, lastContext,
                 debounceInvoked, throttleCalls, throttleInvoked>>

\* `later` of debounce: timeout = null; func.apply(context, args)
DebounceLater ==
  \E t \in timers :
    /\ t.owner = "debounce"
    /\ t.due <= now
    /\ timers' = timers \ {t}
    /\ timeout' = NULL
    /\ debounceInvoked' = Append(debounceInvoked, Invocation(t.context, t.args))
    /\ UNCHANGED <<closureVars, scopeVars, timerVars, loaderVars, engineVars,
                   factoryVars, observerVars, envVars, eventVars, apiVars, serviceVars,
                   now, inThrottle, lastArgs, lastContext,
                   debounceCalls, throttleCalls, throttleInvoked>>

\* one call of the throttled function as the log keeps it
ThrottleCall(ctx, a) ==
  [context |-> ctx, args |-> a, at |-> now, leading |-> ~inThrottle]

\* a throttled function that keeps the first call of a window, not the last
ThrottledCall_KeepsFirst(ctx, a) ==
  /\ ApiCalls < MaxCalls
  /\ ~TimerDue
  /\ throttleCalls' = Append(throttleCalls, ThrottleCall(ctx, a))
  /\ IF ~inThrottle
     THEN /\ throttleInvoked' = Append(throttleInvoked, Invocation(ctx, a))
          /\ inThrottle' = TRUE
          /\ timers' = timers \cup {Timer("throttle", Len(throttleCalls) + 1, Limit, NoArgs, NoArgs)}
          /\ UNCHANGED <<lastArgs, lastContext>>
     ELSE /\ lastArgs' = IF lastArgs = NoArgs THEN a ELSE lastArgs
          /\ lastContext' = IF lastArgs = NoArgs THEN ctx ELSE lastContext
          /\ UNCHANGED <<throttleInvoked, inThrottle, timers>>
  /\ UNCHANGED <<closureVars, scopeVars, timerVars, loaderVars, engineVars,
                 factoryVars, observerVars, envVars, eventVars, apiVars, serviceVars,
                 now, timeout, debounceCalls, debounceInvoked>>

\* a call of the throttled function: outside a window func is applied at
\* once and the window's timer is started; inside a window the call is
\* kept in lastArgs and lastContext
ThrottledCall(ctx, a) ==
  /\ ApiCalls < MaxCalls
  /\ ~TimerDue
  /\ throttleCalls' = Append(throttleCalls, ThrottleCall(ctx, a))
  /\ IF ~inThrottle
     THEN /\ throttleInvoked' = Append(throttleInvoked, Invocation(ctx, a))
          /\ inThrottle' = TRUE
          /\ timers' = timers \cup {Timer("throttle", Len(throttleCalls) + 1, Limit, NoArgs, NoArgs)}
          /\ UNCHANGED <<lastArgs, lastContext>>
     ELSE /\ lastArgs' = a
          /\ lastContext' = ctx
          /\ UNCHANGED <<throttleInvoked, inThrottle, timers>>
  /\ UNCHANGED <<closureVars, scopeVars, timerVars, loaderVars, engineVars,
                 factoryVars, observerVars, envVars, eventVars, apiVars, serviceVars,
                 now, timeout, debounceCalls, debounceInvoked>>

\* the window's timer of throttle: inThrottle = false, and the kept call,
\* if there is one, is applied and forgotten
ThrottleTimer ==
  \E t \in timers :
    /\ t.owner = "throttle"
    /\ t.due <= now
    /\ timers' = timers \ {t}
    /\ inThrottle' = FALSE
    /\ IF lastArgs # NoArgs
       THEN /\ throttleInvoked' = Append(throttleInvoked, Invocation(lastContext, lastArgs))
            /\ lastArgs' = NoArgs
            /\ lastContext' = NoArgs
       ELSE UNCHANGED <<throttleInvoked, lastArgs, lastContext>>
    /\ UNCHANGED <<closureVars, scopeVars, timerVars, loaderVars, engineVars,
                   factoryVars, observerVars, envVars, eventVars, apiVars, serviceVars,
                   now, timeout, debounceCalls, debounceInvoked, throttleCalls>>

\* no directive is mounted; the two functions have just been made
InitPerformance == InitFactory /\ jscAvailable

NextPerformance ==
  \/ Tick
  \/ \E ctx \in Contexts, a \in ArgValues : DebouncedCall(ctx, a)
  \/ DebounceLater
  \/ \E ctx \in Contexts, a \in ArgValues : ThrottledCall(ctx, a)
  \/ ThrottleTimer

SpecPerformance == InitPerformance /\ [][NextPerformance]_vars

(***************************************************************************)
(* Properties of jscPerformance (checked under SpecPerformance).           *)
(***************************************************************************)
\* the calls of the debounced function that end a burst: the next call, if
\* any, came no sooner than Wait after them
BurstEnds ==
  {i \in DOMAIN debounceCalls :
     i = Len(debounceCalls) \/ debounceCalls[i + 1].at - debounceCalls[i].at >= Wait}
\* the bursts whose delay has run out: the timer of their last call is gone
ElapsedBursts ==
  {i \in BurstEnds : ~\E t \in timers : t.owner = "debounce" /\ t.id = i}
\* the k-th smallest element of a set of numbers
Nth(S, k) == CHOOSE i \in S : Cardinality({j \in S : j < i}) = k - 1

\* C14: at most one timer of the debounced function is pending (a call
\* cancels the earlier one), a call never applies func itself, and func has
\* been applied exactly once for every burst whose delay has run out, with
\* the this and arguments of the burst's last call, Wait after that call.
C14_DebounceOneTrailingInvocation ==
  /\ Cardinality({t \in timers : t.owner = "debounce"}) <= 1
  /\ Len(debounceInvoked) = Cardinality(ElapsedBursts)
  /\ \A k \in DOMAIN debounceInvoked :
       LET call == debounceCalls[Nth(ElapsedBursts, k)] IN
         /\ debounceInvoked[k].args = call.args
         /\ debounceInvoked[k].context = call.context
         /\ debounceInvoked[k].at = call.at + Wait

\* C14 witness: three calls less than Wait apart, the last with other
\* arguments than the first two, and one invocation after them
C14_Witness ==
  /\ Len(debounceCalls) = 3
  /\ debounceCalls[2].at = debounceCalls[1].at + 1
  /\ debounceCalls[3].at = debounceCalls[2].at + 1
  /\ debounceCalls[3].args # debounceCalls[2].args
  /\ debounceCalls[2].args = debounceCalls[1].args
  /\ Len(debounceInvoked) = 1
  /\ debounceInvoked[1].args = debounceCalls[3].args
  /\ timers = {}

\* C16: no two invocations of func by the throttled function are less than
\* Limit apart.
C16_ThrottleAtMostOncePerWindow ==
  \A i, j \in DOMAIN throttleInvoked :
    i < j => throttleInvoked[j].at - throttleInvoked[i].at >= Limit

C15_OptionsBurstFlushedOnce ==
  [][(debounceTask.kind = "options" /\ isInitialized /\ chart # NULL
        /\ debounceTask' # debounceTask /\ ~scopeDestroyed')
       => /\ debounceTask' = NoTask
          /\ optionsCalls' = Append(optionsCalls,
               OptionsCall(chart, buildConfig(scope), TRUE, "debounce"))]_vars

\* C18: an options or series notification whose fingerprint equals the
\* cached one starts no timer and causes no chart.options call.
C18_SameFingerprintNoUpdate ==
  /\ [][((\E v \in OptionValues : OptionsChanged(v))
           /\ computeHash(scope'.options) = lastOptionsHash)
          => UNCHANGED <<debounceTask, debounceTimeout, optionsCalls, lastOptionsHash>>]_vars
  /\ [][((\E v \in SeriesValues : SeriesChanged(v))
           /\ computeHash(scope'.series) = lastSeriesHash)
          => UNCHANGED <<debounceTask, debounceTimeout, optionsCalls, lastSeriesHash>>]_vars

\* C18 witness: the directive is Ready with its first chart, jsc-options
\* and jsc-series went from unbound to null, a value with the cached
\* fingerprint, in notifications that reached the comparison, and no
\* update was started
C18_Witness ==
  /\ isInitialized
  /\ scope.options = Null
  /\ lastOptionsHash = computeHash(Null)
  /\ scope.series = Null
  /\ lastSeriesHash = computeHash(Null)
  /\ earlyRequest = Absent
  /\ \A c \in Charts : engine[c].status # "destroyed"
  /\ debounceTask = NoTask
  /\ ~debounceTimeout
  /\ optionsCalls = <<>>

\* C19: no exception thrown by chart.options on an update path leaves the
\* directive's code uncaught.
C19_UpdateErrorsContained == ~uncaught

\* C20: when chart.destroy() throws inside jscChartFactory.destroy, the
\* call still returns true and the registry holds no entry for the chart
\* afterwards.
C20_DestroyFailureStillUntracks ==
  [][\A x \in DestroyArgs :
       (AppDestroy(x) /\ apiResult'.threw)
         => /\ apiResult'.returned
            /\ DestroyedChart(x) # NULL
            /\ engine'[DestroyedChart(x)].destroyCalls = engine[DestroyedChart(x)].destroyCalls + 1
            /\ \A id \in DOMAIN instances' : instances'[id] # DestroyedChart(x)]_vars

\* C20 witness: a registered chart was destroyed by a call in which
\* chart.destroy() threw; the call returned true and the entry is gone
C20_Witness ==
  /\ apiResult.threw
  /\ apiResult.returned
  /\ \E c \in Charts : /\ angularId[c] # NoId
                       /\ engine[c].destroyCalls = 1
                       /\ angularId[c] \notin DOMAIN instances

(***************************************************************************)
(* jscModuleLoader and jscChartFactory.create used by application code:    *)
(* loadScript (behind loadMaps, loadTypes, loadDataGrid, preload and       *)
(* loadForType) looks at loadedModules, then at the script elements of     *)
(* the document, and only then appends a script element.                   *)
(***************************************************************************)
MaxRequests == 3

\* loadScript(src): an element with this src is in the document
ExistingScript_Never(m) == FALSE
ExistingScript(m) == scripts[m].state # "none"

\* loadScript(src): the promise it returns.  creator: the promise belongs
\* to the call that appended the element, so onload / onerror settle it;
\* scriptAtSettle: the state of the element when the promise was settled;
\* owner: the deferred of jscChartFactory.create waiting for it, 0 for none
LoadRequest(m, owner) ==
  [module |-> m, owner |-> owner, handled |-> FALSE,
   status |-> IF m \in loadedModules \/ ExistingScript(m) THEN "resolved" ELSE "pending",
   creator |-> ~(m \in loadedModules \/ ExistingScript(m)),
   scriptAtSettle |-> IF m \in loadedModules \/ ExistingScript(m)
                      THEN scripts[m].state ELSE "none"]
\* loadScript(src): loadedModules after the call
LoadScriptLoaded(m) ==
  IF m \notin loadedModules /\ ExistingScript(m)
  THEN loadedModules \cup {m} ELSE loadedModules
\* loadScript(src): the document after the call
LoadScriptDocument(m) ==
  IF m \in loadedModules \/ ExistingScript(m) THEN scripts
  ELSE [scripts EXCEPT ![m] = [state |-> "loading", appended |-> @.appended + 1]]

\* $q.resolve() of loadForType for a type that needs no module
ResolvedRequest(owner) ==
  [module |-> "", owner |-> owner, handled |-> FALSE, status |-> "resolved",
   creator |-> FALSE, scriptAtSettle |-> "none"]

\* the requests settled by the element of module m
Settled(m, status, state) ==
  [i \in DOMAIN requests |->
     IF requests[i].module = m /\ requests[i].creator /\ requests[i].status = "pending"
     THEN [requests[i] EXCEPT !.status = status, !.scriptAtSettle = state]
     ELSE requests[i]]

\* the application calls loadMaps(), loadTypes() or preload([m])
AppLoadScript(m) ==
  /\ envSteps < MaxRequests
  /\ envSteps' = envSteps + 1
  /\ requests' = Append(requests, LoadRequest(m, 0))
  /\ loadedModules' = LoadScriptLoaded(m)
  /\ scripts' = LoadScriptDocument(m)
  /\ UNCHANGED <<closureVars, scopeVars, timerVars, loads, engineVars,
                 factoryVars, observerVars, earlyRequest, destroyedWhileLoading,
                 eventVars, apiVars, performanceVars, deferreds, configVars>>

\* script.onload: loadedModules[src] = true; deferred.resolve()
ScriptElementOnload(m) ==
  /\ scripts[m].state = "loading"
  /\ scripts' = [scripts EXCEPT ![m].state = "loaded"]
  /\ loadedModules' = loadedModules \cup {m}
  /\ requests' = Settled(m, "resolved", "loaded")
  /\ UNCHANGED <<closureVars, scopeVars, timerVars, loads, engineVars,
                 factoryVars, observerVars, envVars,
                 eventVars, apiVars, performanceVars, deferreds, configVars>>

\* script.onerror: deferred.reject('Failed to load module: ' + fullSrc)
ScriptElementOnerror(m) ==
  /\ scripts[m].state = "loading"
  /\ scripts' = [scripts EXCEPT ![m].state = "failed"]
  /\ requests' = Settled(m, "rejected", "failed")
  /\ UNCHANGED <<closureVars, scopeVars, timerVars, loaderVars, engineVars,
                 factoryVars, observerVars, envVars,
                 eventVars, apiVars, performanceVars, deferreds, configVars>>

\* jscModuleLoader.isLoaded(module)
isLoaded(m) == m \in loadedModules

\* jscChartFactory.create: the deferred behind the promise it returns, with
\* the target of the call, the chart JSC.chart returned for it, and
\* whether that chart was in the registry when the deferred was resolved
Deferred(status, failure, target) ==
  [status |-> status, failure |-> failure, target |-> target,
   chart |-> NULL, registered |-> FALSE]
\* deferred.reject(reason): a settled deferred stays as it is
Rejected(d, failure) ==
  IF deferreds[d].status # "pending" THEN deferreds
  ELSE [deferreds EXCEPT ![d].status = "rejected", ![d].failure = failure]

\* the promise of loadForType(mergedOptions.type) in create
CreateRequest(type, d) ==
  IF moduleMap(type) # "" /\ moduleMap(type) \notin loadedModules
  THEN LoadRequest(moduleMap(type), d)
  ELSE ResolvedRequest(d)

\* the application calls jscChartFactory.create(target, {type: type})
AppCreate(target, type) ==
  /\ envSteps < MaxRequests
  /\ envSteps' = envSteps + 1
  /\ IF ~jscAvailable
     THEN /\ deferreds' = Append(deferreds, Deferred("rejected", "unavailable", target))
          /\ UNCHANGED <<requests, loadedModules, scripts>>
     ELSE /\ deferreds' = Append(deferreds, Deferred("pending", "none", target))
          /\ requests' = Append(requests, CreateRequest(type, Len(deferreds) + 1))
          /\ loadedModules' = IF CreateRequest(type, 0).module = "" THEN loadedModules
                              ELSE LoadScriptLoaded(moduleMap(type))
          /\ scripts' = IF CreateRequest(type, 0).module = "" THEN scripts
                        ELSE LoadScriptDocument(moduleMap(type))
  /\ UNCHANGED <<closureVars, scopeVars, timerVars, loads, engineVars,
                 factoryVars, observerVars, earlyRequest, destroyedWhileLoading,
                 eventVars, apiVars, performanceVars, configVars>>

\* a then-callback of create that drops what JSC.chart throws
CreateThen_SwallowsThrow(i) ==
  /\ requests[i].owner # 0
  /\ requests[i].status = "resolved"
  /\ ~requests[i].handled
  /\ NewChart \in Charts
  /\ requests' = [requests EXCEPT ![i].handled = TRUE]
  /\ \E throws \in BOOLEAN :
       /\ engine' = createSyncEngine(deferreds[requests[i].owner].target, "create", throws)
       /\ deferreds' = IF throws THEN deferreds
                       ELSE [deferreds EXCEPT ![requests[i].owner].chart = NewChart]
  /\ UNCHANGED <<closureVars, scopeVars, timerVars, loaderVars, jscAvailable,
                 factoryVars, observerVars, envVars, eventVars, apiVars,
                 performanceVars, scripts, configVars>>

\* the then-callback of create: JSC.chart(target, mergedOptions, ...) in a
\* try whose catch rejects the deferred
CreateThen(i) ==
  /\ requests[i].owner # 0
  /\ requests[i].status = "resolved"
  /\ ~requests[i].handled
  /\ NewChart \in Charts
  /\ requests' = [requests EXCEPT ![i].handled = TRUE]
  /\ \E throws \in BOOLEAN :
       /\ engine' = createSyncEngine(deferreds[requests[i].owner].target, "create", throws)
       /\ deferreds' = IF throws THEN Rejected(requests[i].owner, "throw")
                       ELSE [deferreds EXCEPT ![requests[i].owner].chart = NewChart]
  /\ UNCHANGED <<closureVars, scopeVars, timerVars, loaderVars, jscAvailable,
                 factoryVars, observerVars, envVars, eventVars, apiVars,
                 performanceVars, scripts, configVars>>

\* the catch-callback of create: deferred.reject(error)
CreateCatch(i) ==
  /\ requests[i].owner # 0
  /\ requests[i].status = "rejected"
  /\ ~requests[i].handled
  /\ requests' = [requests EXCEPT ![i].handled = TRUE]
  /\ deferreds' = Rejected(requests[i].owner, "load")
  /\ UNCHANGED <<closureVars, scopeVars, timerVars, loaderVars, engineVars,
                 factoryVars, observerVars, envVars, eventVars, apiVars,
                 performanceVars, scripts, configVars>>

\* the $timeout of create's ready callback: the chart enters the registry
\* and deferred.resolve(chart) is called
CreateTimeout ==
  /\ timeoutQueue # <<>>
  /\ Head(timeoutQueue).fn = "create"
  /\ timeoutQueue' = Tail(timeoutQueue)
  /\ LET c == Head(timeoutQueue).chart IN
       /\ instances' = Registered(RegistryId(c), c)
       /\ angularId' = [angularId EXCEPT ![c] = RegistryId(c)]
       /\ instanceCounter' = IF RegistryId(c) = generateId
                             THEN instanceCounter + 1 ELSE instanceCounter
       /\ deferreds' =
            [d \in DOMAIN deferreds |->
               IF deferreds[d].chart = c /\ deferreds[d].status = "pending"
               THEN [deferreds[d] EXCEPT
                       !.status = "resolved",
                       !.registered = \E id \in DOMAIN instances' : instances'[id] = c]
               ELSE deferreds[d]]
  /\ UNCHANGED <<closureVars, scopeVars, debounceTask, loaderVars, engineVars,
                 observerVars, envVars, eventVars, apiVars, performanceVars,
                 scripts, requests, configVars>>

\* no directive is mounted; the application uses jscModuleLoader
InitLoader == InitFactory

NextLoader ==
  \/ \E m \in Modules : AppLoadScript(m)
  \/ \E m \in Modules : ScriptElementOnload(m)
  \/ \E m \in Modules : ScriptElementOnerror(m)

SpecLoader == InitLoader /\ [][NextLoader]_vars

\* no directive is mounted; the application uses jscChartFactory.create
InitCreate == InitFactory

NextCreate ==
  \/ \E type \in Types : AppCreate(ElementTarget, type)
  \/ \E m \in Modules : ScriptElementOnload(m)
  \/ \E m \in Modules : ScriptElementOnerror(m)
  \/ \E i \in DOMAIN requests : CreateThen(i)
  \/ \E i \in DOMAIN requests : CreateCatch(i)
  \/ \E c \in Charts : EngineReady(c)
  \/ CreateTimeout

SpecCreate == InitCreate /\ [][NextCreate]_vars

(***************************************************************************)
(* Properties of jscModuleLoader (checked under SpecLoader) and of         *)
(* jscChartFactory.create (checked under SpecCreate).                      *)
(***************************************************************************)
\* C21: a promise of the loader that belongs to a module is resolved only
\* once that module's script element has fired onload.
C21_ResolvedOnlyAfterOnload ==
  \A i \in DOMAIN requests :
    (requests[i].module # "" /\ requests[i].status = "resolved")
      => requests[i].scriptAtSettle = "loaded"

\* C22: a module whose script failed to load is not reported loaded by
\* isLoaded, and no request for it is resolved while its script is in the
\* failed state.
C22_FailedModuleNotLoaded ==
  /\ \A m \in Modules : scripts[m].state = "failed" => ~isLoaded(m)
  /\ \A i \in DOMAIN requests :
       requests[i].status = "resolved" => requests[i].scriptAtSettle # "failed"

\* C23: at most one script element is ever appended to the document for a
\* module path.
C23_OneScriptPerModule == \A m \in Modules : scripts[m].appended <= 1

\* C23 witness: three requests were made for one module, during its load
\* and after it, and the document holds the one element of the first
C23_Witness ==
  \E m \in Modules :
    /\ scripts[m].appended = 1
    /\ scripts[m].state # "loading"
    /\ Cardinality({i \in DOMAIN requests : requests[i].module = m}) >= 3
    /\ \E i \in DOMAIN requests :
         requests[i].module = m /\ ~requests[i].creator
           /\ requests[i].scriptAtSettle = "loading"

MaxConfigCalls == 2
MaxBuilderCalls == 5

\* angular.copy that hands back its argument
copy_Alias(h, s) == [heap |-> h, slot |-> s]

\* angular.copy(source): a primitive is returned as it is; an object or
\* array gets a new cell, each of its keys copied in turn
RECURSIVE copyFields(_, _, _, _)
RECURSIVE copy(_, _)
copy(h, s) ==
  IF ~isObject(s) THEN [heap |-> h, slot |-> s]
  ELSE LET a == Len(h) + 1
           h1 == Append(h, Cell(h[s.ref].array, NoFields))
       IN [heap |-> copyFields(h1, s.ref, a, DOMAIN h[s.ref].fields), slot |-> Ref(a)]

copyFields(h, src, dst, keys) ==
  IF keys = {} THEN h
  ELSE LET k == CHOOSE j \in keys : TRUE
           r == copy(h, h[src].fields[k])
       IN copyFields(Put(r.heap, dst, k, r.slot), src, dst, keys \ {k})

\* angular.extend(dst, src): every key of src assigned to dst
baseExtend_Shallow(h, dst, src, keys) ==
  [h EXCEPT ![dst].fields =
     [j \in (DOMAIN h[dst].fields) \cup keys |->
        IF j \in keys THEN h[src].fields[j] ELSE h[dst].fields[j]]]

\* angular.merge's baseExtend(dst, [src], true): for every key of src, an
\* object or array value is merged into dst[key] (made [] or {} first when
\* dst[key] is not an object), any other value is assigned
RECURSIVE baseExtend(_, _, _, _)
baseExtend(h, dst, src, keys) ==
  IF keys = {} THEN h
  ELSE LET k == CHOOSE j \in keys : TRUE
           s == h[src].fields[k]
       IN IF isObject(s)
          THEN LET h1 == IF isObject(Get(h, dst, k)) THEN h
                         ELSE Put(Append(h, Cell(h[s.ref].array, NoFields)),
                                  dst, k, Ref(Len(h) + 1))
                   h2 == baseExtend(h1, Get(h1, dst, k).ref, s.ref,
                                    DOMAIN h1[s.ref].fields)
               IN baseExtend(h2, dst, src, keys \ {k})
          ELSE baseExtend(Put(h, dst, k, s), dst, src, keys \ {k})

\* angular.merge(dst, src); a source that is not an object is skipped
merge(h, dst, src) ==
  IF isObject(dst) /\ isObject(src)
  THEN baseExtend(h, dst.ref, src.ref, DOMAIN h[src.ref].fields)
  ELSE h

\* x = x || {}: the value when truthy, otherwise a new empty object
OrEmpty(r) ==
  IF Truthy(r.slot) THEN r
  ELSE [heap |-> Append(r.heap, Cell(FALSE, NoFields)), slot |-> Ref(Len(r.heap) + 1)]

\* obj[k] = obj[k] || {}
EnsureObject(h, a, k) ==
  IF Truthy(Get(h, a, k)) THEN h
  ELSE Put(Append(h, Cell(FALSE, NoFields)), a, k, Ref(Len(h) + 1))

\* the structure below a value: one node for each key path
RECURSIVE Nodes(_, _, _)
Nodes(h, s, path) ==
  IF ~isObject(s) THEN {[path |-> path, kind |-> s.kind, text |-> s.text]}
  ELSE {[path |-> path, kind |-> IF h[s.ref].array THEN "array" ELSE "object", text |-> ""]}
       \cup UNION {Nodes(h, h[s.ref].fields[k], Append(path, k)) : k \in DOMAIN h[s.ref].fields}
Structure(h, s) == IF s.kind = "undefined" THEN {} ELSE Nodes(h, s, <<>>)
Leaves(S) == {n \in S : n.kind \notin {"object", "array"}}
IsPrefix(p, q) == Len(p) <= Len(q) /\ SubSeq(q, 1, Len(p)) = p
Below(S, p) == {n \in S : IsPrefix(p, n.path)}

\* the cells a value reaches
RECURSIVE Reach(_, _)
Reach(h, s) ==
  IF ~isObject(s) THEN {}
  ELSE {s.ref} \cup UNION {Reach(h, h[s.ref].fields[k]) : k \in DOMAIN h[s.ref].fields}

\* objects an application passes in
NoLiteral == << >>
BaseLiteral ==      \* {a: 1, b: {x: 1}}
  << Cell(FALSE, ("a" :> Prim("1")) @@ ("b" :> Ref(2))), Cell(FALSE, "x" :> Prim("1")) >>
NestedLiteral ==    \* {b: {x: 2, y: 3}}
  << Cell(FALSE, "b" :> Ref(2)), Cell(FALSE, ("x" :> Prim("2")) @@ ("y" :> Prim("3"))) >>
ScalarLiteral ==    \* {b: 5, debug: null}
  << Cell(FALSE, ("b" :> Prim("5")) @@ ("debug" :> NullSlot)) >>
LongListLiteral ==  \* {list: [1, 2, 3]}
  << Cell(FALSE, "list" :> Ref(2)),
     Cell(TRUE, ("0" :> Prim("1")) @@ ("1" :> Prim("2")) @@ ("2" :> Prim("3"))) >>
ShortListLiteral == \* {list: [9]}
  << Cell(FALSE, "list" :> Ref(2)), Cell(TRUE, "0" :> Prim("9")) >>
Literals == {BaseLiteral, NestedLiteral, ScalarLiteral, LongListLiteral, ShortListLiteral}

\* the value of an argument literal evaluated at heap h
Arg(h, lit) == IF lit = NoLiteral THEN UndefinedSlot ELSE Ref(Len(h) + 1)

Call(fn, base, override, attrs, result) ==
  [fn |-> fn, base |-> base, override |-> override, attrs |-> attrs, result |-> result]
NoAttrs == [k \in {} |-> UndefinedSlot]

\* jscConfigProvider.setDefaults(config): angular.merge(defaults, config)
setDefaults(h, defaults, config) == merge(h, defaults, config)

\* jscConfig.mergeWithDefaults(config)
mergeWithDefaults(h, defaults, config) ==
  LET result == copy(h, defaults)
  IN [heap |-> IF Truthy(config) THEN merge(result.heap, result.slot, config)
               ELSE result.heap,
      slot |-> result.slot]

otherConfigVars == <<closureVars, scopeVars, timerVars, loaderVars, engineVars,
                     factoryVars, observerVars, earlyRequest, destroyedWhileLoading,
                     eventVars, apiVars, performanceVars, loaderApiVars>>

\* the application's config block calls jscConfigProvider.setDefaults(lit)
AppSetDefaults(lit) ==
  /\ envSteps < MaxConfigCalls
  /\ envSteps' = envSteps + 1
  /\ LET h == Install(heap, lit)
         config == Arg(heap, lit)
     IN /\ heap' = setDefaults(h, roots.defaults, config)
        /\ roots' = [roots EXCEPT !.config = config]
        /\ lastCall' = Call("setDefaults", Structure(h, roots.defaults),
                            Structure(h, config), NoAttrs, roots.defaults)
  /\ UNCHANGED otherConfigVars

\* the application calls jscConfig.mergeWithDefaults(lit)
AppMergeWithDefaults(lit) ==
  /\ envSteps < MaxConfigCalls
  /\ envSteps' = envSteps + 1
  /\ LET h == Install(heap, lit)
         config == Arg(heap, lit)
         r == mergeWithDefaults(h, roots.defaults, config)
     IN /\ heap' = r.heap
        /\ roots' = [roots EXCEPT !.config = config, !.result = r.slot]
        /\ lastCall' = Call("mergeWithDefaults", Structure(h, roots.defaults),
                            Structure(h, config), NoAttrs, r.slot)
  /\ UNCHANGED otherConfigVars

\* scope objects of the directives
ChartOptionsLiteral ==     \* {type: 'bar', title: {label: {text: 'old'}}}
  << Cell(FALSE, ("type" :> Prim("bar")) @@ ("title" :> Ref(2))),
     Cell(FALSE, "label" :> Ref(3)), Cell(FALSE, "text" :> Prim("old")) >>
SeriesLiteral ==           \* [{points: [1]}]
  << Cell(TRUE, "0" :> Ref(2)), Cell(FALSE, "points" :> Ref(3)), Cell(TRUE, "0" :> Prim("1")) >>
CalendarOptionsLiteral ==  \* {calendar: {year: 2019}}
  << Cell(FALSE, "calendar" :> Ref(2)), Cell(FALSE, "year" :> Prim("2019")) >>
CalendarConfigLiteral ==   \* {year: 2020, view: 'month'}
  << Cell(FALSE, ("year" :> Prim("2020")) @@ ("view" :> Prim("month"))) >>
MapOptionsLiteral ==       \* {mapping: {base: {layers: 'world'}}}
  << Cell(FALSE, "mapping" :> Ref(2)), Cell(FALSE, "base" :> Ref(3)),
     Cell(FALSE, "layers" :> Prim("world")) >>
MappingLiteral ==          \* {base: {layers: 'europe'}, projection: 'albers'}
  << Cell(FALSE, ("base" :> Ref(2)) @@ ("projection" :> Prim("albers"))),
     Cell(FALSE, "layers" :> Prim("europe")) >>

\* wireEvents(config) of jscChart: config.events is made when missing; for
\* a bound on-point-click the handler is stored under
\* config.defaultPoint.events, both made when missing
wireEvents(h, config, sc) ==
  LET h0 == EnsureObject(h, config, "events")
  IN IF ~sc.onPointClick THEN h0
     ELSE LET h1 == EnsureObject(h0, config, "defaultPoint")
              dp == Get(h1, config, "defaultPoint").ref
              h2 == EnsureObject(h1, dp, "events")
          IN Put(h2, Get(h2, dp, "events").ref, "click", Prim("function"))

\* buildConfig of jscChart on the heap: a copy of scope.options, then
\* jsc-type, a copy of jsc-series, jsc-title, then the event wiring
chartBuildConfig(h, sc) ==
  LET c == OrEmpty(copy(h, sc.options))
      config == c.slot.ref
      h1 == IF Truthy(sc.type) THEN Put(c.heap, config, "type", sc.type) ELSE c.heap
      s == copy(h1, sc.series)
      h2 == IF Truthy(sc.series) THEN Put(s.heap, config, "series", s.slot) ELSE h1
      h3 == IF ~Truthy(sc.title) THEN h2
            ELSE LET t1 == EnsureObject(h2, config, "title")
                     title == Get(t1, config, "title").ref
                     t2 == EnsureObject(t1, title, "label")
                 IN Put(t2, Get(t2, title, "label").ref, "text", sc.title)
  IN [heap |-> wireEvents(h3, config, sc), slot |-> c.slot]

\* buildConfig of jscCalendar: a copy of scope.options, the type, then
\* config.calendar with jsc-year and, after it, jsc-calendar-config merged in
calendarBuildConfig(h, sc) ==
  LET c == OrEmpty(copy(h, sc.options))
      config == c.slot.ref
      h1 == EnsureObject(Put(c.heap, config, "type", Prim("calendar")), config, "calendar")
      calendar == Get(h1, config, "calendar")
      h2 == IF sc.year.kind # "undefined" THEN Put(h1, calendar.ref, "year", sc.year) ELSE h1
      h3 == IF Truthy(sc.calendarConfig) THEN merge(h2, calendar, sc.calendarConfig) ELSE h2
  IN [heap |-> h3, slot |-> c.slot]

\* buildConfig of jscMap: a copy of scope.options, the type, config.mapping
\* with jsc-map as its base layers, jsc-mapping merged in, then jsc-projection
mapBuildConfig(h, sc) ==
  LET c == OrEmpty(copy(h, sc.options))
      config == c.slot.ref
      h1 == EnsureObject(Put(c.heap, config, "type", Prim("map")), config, "mapping")
      mapping == Get(h1, config, "mapping")
      h2 == IF ~Truthy(sc.map) THEN h1
            ELSE LET b == EnsureObject(h1, mapping.ref, "base")
                 IN Put(b, Get(b, mapping.ref, "base").ref, "layers", sc.map)
      h3 == IF Truthy(sc.mapping) THEN merge(h2, mapping, sc.mapping) ELSE h2
      h4 == IF sc.projection.kind # "undefined"
            THEN Put(h3, mapping.ref, "projection", sc.projection) ELSE h3
  IN [heap |-> h4, slot |-> c.slot]

\* a jscChart whose parent bound these values builds its configuration
ChartBuildConfig(optionsLit, seriesLit, type, title, click) ==
  /\ envSteps < MaxConfigCalls
  /\ envSteps' = envSteps + 1
  /\ LET h0 == Install(heap, optionsLit)
         h == Install(h0, seriesLit)
         sc == [options |-> Arg(heap, optionsLit), series |-> Arg(h0, seriesLit),
                type |-> type, title |-> title, onPointClick |-> click]
         r == chartBuildConfig(h, sc)
     IN /\ heap' = r.heap
        /\ roots' = [roots EXCEPT !.options = sc.options, !.series = sc.series,
                                  !.result = r.slot]
        /\ lastCall' = Call("chart.buildConfig", Structure(h, sc.options),
                            Structure(h, sc.series),
                            ("type" :> type) @@ ("title" :> title), r.slot)
  /\ UNCHANGED otherConfigVars

\* a jscCalendar builds its configuration
CalendarBuildConfig(optionsLit, year, calendarLit) ==
  /\ envSteps < MaxConfigCalls
  /\ envSteps' = envSteps + 1
  /\ LET h0 == Install(heap, optionsLit)
         h == Install(h0, calendarLit)
         sc == [options |-> Arg(heap, optionsLit), year |-> year,
                calendarConfig |-> Arg(h0, calendarLit)]
         r == calendarBuildConfig(h, sc)
     IN /\ heap' = r.heap
        /\ roots' = [roots EXCEPT !.options = sc.options,
                                  !.override = sc.calendarConfig, !.result = r.slot]
        /\ lastCall' = Call("calendar.buildConfig", Structure(h, sc.options),
                            Structure(h, sc.calendarConfig), "year" :> year, r.slot)
  /\ UNCHANGED otherConfigVars

\* a jscMap builds its configuration
MapBuildConfig(optionsLit, map, mappingLit, projection) ==
  /\ envSteps < MaxConfigCalls
  /\ envSteps' = envSteps + 1
  /\ LET h0 == Install(heap, optionsLit)
         h == Install(h0, mappingLit)
         sc == [options |-> Arg(heap, optionsLit), map |-> map,
                mapping |-> Arg(h0, mappingLit), projection |-> projection]
         r == mapBuildConfig(h, sc)
     IN /\ heap' = r.heap
        /\ roots' = [roots EXCEPT !.options = sc.options,
                                  !.override = sc.mapping, !.result = r.slot]
        /\ lastCall' = Call("map.buildConfig", Structure(h, sc.options),
                            Structure(h, sc.mapping),
                            ("map" :> map) @@ ("projection" :> projection), r.slot)
  /\ UNCHANGED otherConfigVars

\* values handed to jscPerformance.computeHash: null, undefined, the strings
\* 'null' and 'a', the number 1, an object, and a Date that holds no time
\* (its JSON form is null)
HashValues ==
  {Null, Undefined, [tag |-> "string", text |-> "null"], [tag |-> "string", text |-> "a"],
   [tag |-> "number", text |-> "1"], Obj(1), [tag |-> "object", text |-> "null"]}

\* values JSON cannot serialize, id telling one structure from another:
\* objects that contain themselves (JSON.stringify throws) and objects
\* {a: 1, f: function} whose function-valued field JSON.stringify leaves out
UnserializableValues ==
  {[tag |-> "cyclic", text |-> "", id |-> i] : i \in 1..2}
    \cup {[tag |-> "object", text |-> "{a:1}", id |-> i] : i \in 1..2}

\* the application, or a watcher, calls jscPerformance.computeHash(v); the
\* value and fingerprint of the call before are kept for comparison
AppComputeHash(v) ==
  /\ envSteps < MaxConfigCalls
  /\ envSteps' = envSteps + 1
  /\ lastCall' = Call("computeHash",
                      IF lastCall.fn = "computeHash"
                      THEN {[value |-> lastCall.attrs["value"], hash |-> lastCall.result.text]}
                      ELSE {},
                      {}, "value" :> v, Prim(computeHash(v)))
  /\ UNCHANGED <<heap, roots, otherConfigVars>>

\* the parent scope's bindings of a jscChart
ChartBuilds ==
  \E o \in {NoLiteral, ChartOptionsLiteral}, s \in {NoLiteral, SeriesLiteral},
     type \in {UndefinedSlot, Prim("line")}, title \in {UndefinedSlot, Prim("new")},
     click \in BOOLEAN : ChartBuildConfig(o, s, type, title, click)

InitConfig == InitFactory

NextConfig ==
  \/ \E lit \in Literals : AppSetDefaults(lit)
  \/ \E lit \in Literals \cup {NoLiteral} : AppMergeWithDefaults(lit)
  \/ ChartBuilds
  \/ \E v \in HashValues \cup UnserializableValues : AppComputeHash(v)

SpecConfig == InitConfig /\ [][NextConfig]_vars

InitDirectives == InitFactory

NextDirectives ==
  \/ ChartBuilds
  \/ \E o \in {NoLiteral, CalendarOptionsLiteral}, year \in {UndefinedSlot, Prim("2024")},
        c \in {NoLiteral, CalendarConfigLiteral} : CalendarBuildConfig(o, year, c)
  \/ \E o \in {NoLiteral, MapOptionsLiteral}, map \in {UndefinedSlot, Prim("usa")},
        m \in {NoLiteral, MappingLiteral}, p \in {UndefinedSlot, Prim("mercator")} :
          MapBuildConfig(o, map, m, p)

SpecDirectives == InitDirectives /\ [][NextDirectives]_vars

(***************************************************************************)
(* Properties of the configuration functions.                              *)
(***************************************************************************)
\* a default at path p gives way when the override has a value at p or a
\* value that is not an object on the way to p
Shadowed(p, c) ==
  \E n \in c : IsPrefix(n.path, p) /\ (n.path = p \/ n.kind \notin {"object", "array"})
MergedLeaves(d, c) == Leaves(c) \cup {n \in Leaves(d) : ~Shadowed(n.path, c)}
NodeAt(S, p) == {[kind |-> n.kind, text |-> n.text] : n \in {m \in S : m.path = p}}
Is(S, p, s) == NodeAt(S, p) = {[kind |-> s.kind, text |-> s.text]}

\* C25: mergeWithDefaults(config) is a deep merge in which the override wins
\* per leaf: every leaf of the result is config's leaf where config defines
\* one and the defaults' leaf otherwise
C25_MergeOverrideWinsPerLeaf ==
  lastCall.fn = "mergeWithDefaults" =>
    Leaves(Structure(heap, lastCall.result)) = MergedLeaves(lastCall.base, lastCall.override)

\* defaults holding {a:1, b:{x:1}} merged with {b:{x:2, y:3}} gave a:1, b.x:2, b.y:3
C25_Witness ==
  /\ lastCall.fn = "mergeWithDefaults"
  /\ Is(lastCall.base, <<"a">>, Prim("1")) /\ Is(lastCall.base, <<"b", "x">>, Prim("1"))
  /\ Is(lastCall.override, <<"b", "x">>, Prim("2"))
  /\ LET r == Structure(heap, lastCall.result)
     IN /\ Is(r, <<"a">>, Prim("1"))
        /\ Is(r, <<"b", "x">>, Prim("2"))
        /\ Is(r, <<"b", "y">>, Prim("3"))
        /\ Is(r, <<"animation", "duration">>, Prim("400"))

\* C26: when configurations are merged, an array in the override replaces
\* the base array wholesale: the resulting array holds exactly the override
\* array's elements
C26_ArraysReplacedWholesale ==
  lastCall.fn \in {"mergeWithDefaults", "setDefaults"} =>
    \A n \in lastCall.override :
      n.kind = "array" =>
        Below(Leaves(Structure(heap, lastCall.result)), n.path)
          = Below(Leaves(lastCall.override), n.path)

\* C27: building a configuration leaves the caller's input as it was:
\* scope.options and scope.series after jscChart's buildConfig, config and
\* the stored defaults after mergeWithDefaults
C27_BuildLeavesInputsUnchanged ==
  /\ lastCall.fn = "chart.buildConfig" =>
       /\ Structure(heap, roots.options) = lastCall.base
       /\ Structure(heap, roots.series) = lastCall.override
  /\ lastCall.fn = "mergeWithDefaults" =>
       /\ Structure(heap, roots.config) = lastCall.override
       /\ Structure(heap, roots.defaults) = lastCall.base

\* a jscChart with options, series, jsc-type, jsc-title and a point-click
\* handler built a configuration that differs from its options
C27_Witness ==
  /\ lastCall.fn = "chart.buildConfig"
  /\ Is(lastCall.base, <<"type">>, Prim("bar"))
  /\ lastCall.override # {}
  /\ LET r == Structure(heap, lastCall.result)
     IN /\ Is(r, <<"type">>, Prim("line"))
        /\ Is(r, <<"title", "label", "text">>, Prim("new"))
        /\ Is(r, <<"defaultPoint", "events", "click">>, Prim("function"))
        /\ Is(r, <<"series", "0", "points", "0">>, Prim("1"))

\* C29: in each directive's buildConfig an attribute binding wins over the
\* nested override object and over jsc-options: jsc-type and jsc-title in
\* jscChart, jsc-year in jscCalendar, jsc-map and jsc-projection in jscMap
C29_AttributeBindingsWin ==
  /\ lastCall.fn = "chart.buildConfig" =>
       /\ Truthy(lastCall.attrs["type"]) =>
            Is(Structure(heap, lastCall.result), <<"type">>, lastCall.attrs["type"])
       /\ Truthy(lastCall.attrs["title"]) =>
            Is(Structure(heap, lastCall.result), <<"title", "label", "text">>,
               lastCall.attrs["title"])
  /\ lastCall.fn = "calendar.buildConfig" =>
       (lastCall.attrs["year"].kind # "undefined" =>
          Is(Structure(heap, lastCall.result), <<"calendar", "year">>, lastCall.attrs["year"]))
  /\ lastCall.fn = "map.buildConfig" =>
       /\ Truthy(lastCall.attrs["map"]) =>
            Is(Structure(heap, lastCall.result), <<"mapping", "base", "layers">>,
               lastCall.attrs["map"])
       /\ lastCall.attrs["projection"].kind # "undefined" =>
            Is(Structure(heap, lastCall.result), <<"mapping", "projection">>,
               lastCall.attrs["projection"])

\* C30: the fingerprint computeHash gives null and undefined differs from
\* the fingerprint of every value that is neither
C30_NullFingerprintDistinct ==
  (lastCall.fn = "computeHash" /\ lastCall.attrs["value"].tag \notin {"null", "undefined"})
    => lastCall.result.text # computeHash(Null)

(***************************************************************************)
(* jscConfigBuilder: from, extend, build, and an application that writes   *)
(* into objects it holds.                                                   *)
(***************************************************************************)
BuilderLiterals == {BaseLiteral, NestedLiteral, LongListLiteral}

\* jscConfigBuilder.from(config): builder.config = angular.copy(config) || {}
BuilderFrom(lit) ==
  /\ envSteps < MaxBuilderCalls
  /\ envSteps' = envSteps + 1
  /\ LET h == Install(heap, lit)
         config == Arg(heap, lit)
         r == OrEmpty(copy(h, config))
     IN /\ heap' = r.heap
        /\ roots' = [roots EXCEPT !.config = config, !.builder = r.slot,
                                  !.result = UndefinedSlot]
        /\ lastCall' = Call("from", Structure(h, config), {}, NoAttrs, r.slot)
  /\ UNCHANGED otherConfigVars

\* builder.extend(options): angular.merge(this.config, options)
BuilderExtend(lit) ==
  /\ envSteps < MaxBuilderCalls
  /\ isObject(roots.builder)
  /\ envSteps' = envSteps + 1
  /\ LET h == Install(heap, lit)
         options == Arg(heap, lit)
     IN /\ heap' = merge(h, roots.builder, options)
        /\ lastCall' = Call("extend", Structure(h, roots.builder),
                            Structure(h, options), NoAttrs, roots.builder)
  /\ UNCHANGED <<roots, otherConfigVars>>

\* builder.build() that hands out this.config itself
build_ReturnsConfig(h, config) == [heap |-> h, slot |-> config]

\* builder.build(): return angular.copy(this.config)
build(h, config) == copy(h, config)

BuilderBuild ==
  /\ envSteps < MaxBuilderCalls
  /\ isObject(roots.builder)
  /\ envSteps' = envSteps + 1
  /\ LET r == build(heap, roots.builder)
     IN /\ heap' = r.heap
        /\ roots' = [roots EXCEPT !.result = r.slot]
        /\ lastCall' = Call("build", Structure(heap, roots.builder), {}, NoAttrs, r.slot)
  /\ UNCHANGED otherConfigVars

\* the application sets a property on an object it holds, or on an object
\* inside it: the one it gave to from() or the one build() returned
AppMutate(r, a) ==
  /\ envSteps < MaxBuilderCalls
  /\ a \in Reach(heap, roots[r])
  /\ envSteps' = envSteps + 1
  /\ heap' = Put(heap, a, "changed", Prim("1"))
  /\ lastCall' = Call("mutate", Structure(heap, roots.builder), {}, "of" :> Prim(r), roots[r])
  /\ UNCHANGED <<roots, otherConfigVars>>

InitBuilder == InitFactory

NextBuilder ==
  \/ \E lit \in BuilderLiterals \cup {NoLiteral} : BuilderFrom(lit)
  \/ \E lit \in BuilderLiterals : BuilderExtend(lit)
  \/ BuilderBuild
  \/ \E r \in {"config", "result"}, a \in 1..Len(heap) : AppMutate(r, a)

SpecBuilder == InitBuilder /\ [][NextBuilder]_vars

\* C28: build() returns a fresh copy owned by the caller: the builder's
\* state is as before, the result is structurally the builder's state (so
\* two builds in a row are equal) and shares no object with it, and a write
\* into a returned config or into the object given to from() leaves the
\* builder's state, hence every later build(), as it was
C28_BuildReturnsFreshCopy ==
  /\ lastCall.fn = "build" =>
       /\ Structure(heap, roots.builder) = lastCall.base
       /\ Structure(heap, lastCall.result) = lastCall.base
       /\ Reach(heap, lastCall.result) \cap Reach(heap, roots.builder) = {}
  /\ lastCall.fn = "mutate" => Structure(heap, roots.builder) = lastCall.base

\* a build() after the application wrote into an earlier result and into
\* the object it gave to from(): the new result lacks both writes
C28_Witness ==
  /\ lastCall.fn = "build"
  /\ \E a \in Reach(heap, roots.config) : "changed" \in DOMAIN heap[a].fields
  /\ \E a \in 1..Len(heap) :
       /\ "changed" \in DOMAIN heap[a].fields
       /\ a \notin Reach(heap, roots.config)
  /\ \A a \in Reach(heap, roots.result) : "changed" \notin DOMAIN heap[a].fields
  /\ Is(Structure(heap, roots.result), <<"b", "x">>, Prim("1"))


\* C31: for input JSON cannot serialize (a structure that contains itself,
\* function-valued fields) computeHash falls back to an always-different
\* result: two such inputs that differ never get equal fingerprints
C31_UnserializableAlwaysDifferent ==
  lastCall.fn = "computeHash" =>
    \A prev \in lastCall.base :
      (/\ prev.value \in UnserializableValues
       /\ lastCall.attrs["value"] \in UnserializableValues
       /\ prev.value # lastCall.attrs["value"])
        => prev.hash # lastCall.result.text

(***************************************************************************)
(* jscEventService: on, the unbind function it returns, emit.  Every       *)
(* subscription is made with a scope of its own.                            *)
(***************************************************************************)
MaxEmits == 2

otherUtilVars == <<closureVars, scopeVars, timerVars, loaderVars, engineVars,
                   factoryVars, observerVars, envVars, eventVars, apiResult,
                   performanceVars, serviceVars>>

\* the listeners registered on $rootScope
Listening(b) == {s \in Subscriptions : b.subs[s] = "listening"}

\* $rootScope.$emit that calls the listeners registered when emit was called
Receivers_AtEmit(b, e) == e.at

\* $rootScope.$emit(EVENT_PREFIX + eventName, data): the listeners that are
\* registered on $rootScope at the time of the call
Receivers(b, e) == Listening(b)

\* the unbind function $rootScope.$on returned: the listener is removed
unbind(b, s) == [b EXCEPT !.subs[s] = IF @ = "listening" THEN "unbound" ELSE @]

\* jscEventService.on(eventName, callback, scope) by a component whose
\* scope is alive
BusOn(s) ==
  /\ bus.subs[s] = "none"
  /\ bus' = [bus EXCEPT !.subs[s] = "listening"]
  /\ UNCHANGED <<chunkJob, otherUtilVars>>

\* the component calls the unbind function on() returned
BusUnbind(s) ==
  /\ bus.subs[s] \in {"listening", "unbound"}
  /\ bus' = unbind(bus, s)
  /\ UNCHANGED <<chunkJob, otherUtilVars>>

\* the scope given to on() is destroyed: scope.$on('$destroy', unbind)
BusScopeDestroy(s) ==
  /\ bus.subs[s] = "listening"
  /\ bus' = unbind(bus, s)
  /\ UNCHANGED <<chunkJob, otherUtilVars>>

\* jscEventService.emit(eventName, data): $timeout(function() { $emit })
BusEmit ==
  /\ Len(bus.pending) + Len(bus.calls) < MaxEmits * MaxSubscriptions
  /\ Len(bus.pending) < MaxEmits
  /\ bus' = [bus EXCEPT !.pending =
               Append(@, [data |-> Len(bus.pending) + Len(bus.calls) + 1,
                          at |-> Listening(bus)])]
  /\ UNCHANGED <<chunkJob, otherUtilVars>>

RECURSIVE SetToSeq(_)
SetToSeq(S) ==
  IF S = {} THEN <<>>
  ELSE LET s == CHOOSE x \in S : \A y \in S : x <= y
       IN <<s>> \o SetToSeq(S \ {s})

\* the $timeout of an emit fires: every receiver's callback(data) runs;
\* late collects the subscriptions removed since the emit
BusTimeout ==
  /\ bus.pending # <<>>
  /\ LET e == Head(bus.pending)
         to == Receivers(bus, e)
     IN bus' = [bus EXCEPT
                  !.pending = Tail(@),
                  !.calls = @ \o [i \in 1..Cardinality(to) |->
                                    [sub |-> SetToSeq(to)[i], data |-> e.data]],
                  !.late = @ \cup {s \in e.at : bus.subs[s] # "listening"}]
  /\ UNCHANGED <<chunkJob, otherUtilVars>>

InitBus == InitFactory

NextBus ==
  \/ \E s \in Subscriptions : BusOn(s)
  \/ \E s \in Subscriptions : BusUnbind(s)
  \/ \E s \in Subscriptions : BusScopeDestroy(s)
  \/ BusEmit
  \/ BusTimeout

SpecBus == InitBus /\ [][NextBus]_vars

CallsOf(b, s) == Len(SelectSeq(b.calls, LAMBDA c : c.sub = s))

\* C32: once a subscription is removed, by its scope's destruction or by
\* the unbind function, its callback is never invoked again, also not for
\* events emitted before whose delivery was still pending
C32_NoCallbackAfterUnbind ==
  [][\A s \in Subscriptions :
       bus.subs[s] = "unbound" => CallsOf(bus', s) = CallsOf(bus, s)]_vars

\* an event emitted while a subscription was listening was delivered after
\* its removal: another subscriber's callback ran, the removed one's did not
C32_Witness ==
  \E s \in bus.late :
    /\ bus.subs[s] = "unbound"
    /\ CallsOf(bus, s) = 0
    /\ \E o \in Subscriptions \ {s} : CallsOf(bus, o) > 0

(***************************************************************************)
(* Further properties of the jscChart directive.                            *)
(***************************************************************************)
\* C33: while Ready, an options change that passed the hash check is
\* followed by a chart.options call with the config built from the options,
\* unless the directive is destroyed or re-created first, also when a
\* series change arrives inside the debounce window.  Stated on the step
\* that ends the scheduled options update: with the chart and the scope
\* still alive, that step is the timer making this call
C33_OptionsChangeEventuallyApplied ==
  [][(/\ debounceTask.kind = "options"
      /\ debounceTask'.kind # "options"
      /\ chart # NULL /\ chart' = chart
      /\ ~scopeDestroyed /\ ~scopeDestroyed')
       => /\ Len(optionsCalls') = Len(optionsCalls) + 1
          /\ optionsCalls'[Len(optionsCalls')].via = "debounce"
          /\ optionsCalls'[Len(optionsCalls')].config.options = scope.options]_vars

\* C34: no timer callback of jscChart runs against a missing chart: when a
\* debounced series or options update fires, a chart handle exists or the
\* update is kept as pendingUpdate, and no exception comes from a null
\* chart, also when jsc-type changed inside the debounce window
C34_TimerNeverHitsMissingChart ==
  [][DebounceFire =>
       \/ chart # NULL
       \/ (pendingUpdate' = buildConfig(scope) /\ uncaught' = uncaught)]_vars

\* C35: after the directive's $destroy handler has run, scope.chartInstance
\* stays null, and onLoad (invoked where chartInstance is set) is not
\* called, whether the destruction came during Loading, Creating or Ready
C35_OutputStaysNullAfterDestroy == scopeDestroyed => scope.chartInstance = NULL

\* C36: the chart passed to a jscChart event callback is the instance that
\* emitted the event, never null and never an instance made by a later
\* re-initialization (deliveries to a live scope)
C36_CallbackGetsEmittingChart ==
  \A i \in DOMAIN userCalls :
    ~userCalls[i].destroyed => userCalls[i].chart = userCalls[i].source

(***************************************************************************)
(* Further properties of jscChartFactory.                                   *)
(***************************************************************************)
\* C37: destroy(x) removes only x's own registry entry: the entry of every
\* other chart that is alive stays, also when two charts were created with
\* the same string target id
C37_DestroyRemovesOnlyOwnEntry ==
  [][\A x \in DestroyArgs :
       AppDestroy(x) =>
         \A id \in DOMAIN instances :
           (instances[id] # DestroyedChart(x) /\ engine[instances[id]].status = "alive")
             => (id \in DOMAIN instances' /\ instances'[id] = instances[id])]_vars


\* C38: after destroyAll() the registry is empty (getCount() is 0) and the
\* engine's destroy has been invoked once on each chart that was
\* registered, also when some of these calls throw
C38_DestroyAllEmptiesRegistry ==
  [][AppDestroyAll =>
       /\ getCount' = 0
       /\ \A c \in Charts :
            engine'[c].destroyCalls =
              engine[c].destroyCalls
                + (IF \E id \in DOMAIN instances : instances[id] = c THEN 1 ELSE 0)]_vars

\* destroyAll() ran over two registered charts with a chart.destroy() that
\* threw: both were destroyed once and the registry is empty
C38_Witness ==
  /\ apiResult.called /\ apiResult.threw /\ ~apiResult.returned
  /\ getCount = 0
  /\ Cardinality({c \in Charts : angularId[c] # NoId /\ engine[c].destroyCalls = 1}) >= 2

(***************************************************************************)
(* The setters of ConfigBuilder that take an object or array of the caller *)
(* (xAxis, series) and the ones that write below it (xAxisLabel,           *)
(* addSeries); yAxis/yAxisRange and annotations/addAnnotation have the     *)
(* same bodies on other keys.                                               *)
(***************************************************************************)
AxisLiteral ==     \* {scale: {min: 0}}
  << Cell(FALSE, "scale" :> Ref(2)), Cell(FALSE, "min" :> Prim("0")) >>
PointsLiteral ==   \* [1]
  << Cell(TRUE, "0" :> Prim("1")) >>

\* the caller's objects as they are, for comparison after the call
SetterCall(fn, h) ==
  Call(fn, Structure(h, roots.options), Structure(h, roots.series), NoAttrs, roots.builder)

\* jscConfigBuilder.create(): new ConfigBuilder(), this.config = {}
BuilderCreate ==
  /\ envSteps < MaxBuilderCalls
  /\ envSteps' = envSteps + 1
  /\ heap' = Append(heap, Cell(FALSE, NoFields))
  /\ roots' = [roots EXCEPT !.builder = Ref(Len(heap) + 1)]
  /\ lastCall' = Call("create", {}, {}, NoAttrs, Ref(Len(heap) + 1))
  /\ UNCHANGED otherConfigVars

\* builder.xAxis(options): this.config.xAxis = options
BuilderXAxis(lit) ==
  /\ envSteps < MaxBuilderCalls
  /\ isObject(roots.builder)
  /\ envSteps' = envSteps + 1
  /\ heap' = Put(Install(heap, lit), roots.builder.ref, "xAxis", Arg(heap, lit))
  /\ roots' = [roots EXCEPT !.options = Arg(heap, lit)]
  /\ lastCall' = Call("xAxis", Structure(Install(heap, lit), Arg(heap, lit)),
                      Structure(heap, roots.series), NoAttrs, roots.builder)
  /\ UNCHANGED otherConfigVars

\* builder.xAxisLabel(text): this.config.xAxis = this.config.xAxis || {};
\* this.config.xAxis.label = {text: text}
BuilderXAxisLabel ==
  /\ envSteps < MaxBuilderCalls
  /\ isObject(roots.builder)
  /\ envSteps' = envSteps + 1
  /\ LET h1 == EnsureObject(heap, roots.builder.ref, "xAxis")
         h2 == Append(h1, Cell(FALSE, "text" :> Prim("label")))
     IN heap' = Put(h2, Get(h1, roots.builder.ref, "xAxis").ref, "label", Ref(Len(h2)))
  /\ lastCall' = SetterCall("xAxisLabel", heap)
  /\ UNCHANGED <<roots, otherConfigVars>>

\* builder.series(seriesArray): this.config.series = seriesArray
BuilderSeries(lit) ==
  /\ envSteps < MaxBuilderCalls
  /\ isObject(roots.builder)
  /\ envSteps' = envSteps + 1
  /\ heap' = Put(Install(heap, lit), roots.builder.ref, "series", Arg(heap, lit))
  /\ roots' = [roots EXCEPT !.series = Arg(heap, lit)]
  /\ lastCall' = Call("series", Structure(heap, roots.options),
                      Structure(Install(heap, lit), Arg(heap, lit)), NoAttrs, roots.builder)
  /\ UNCHANGED otherConfigVars

\* array.push(s): s stored under the index array.length
Index(n) == IF n = 0 THEN "0" ELSE IF n = 1 THEN "1" ELSE IF n = 2 THEN "2"
            ELSE IF n = 3 THEN "3" ELSE IF n = 4 THEN "4" ELSE "5"
Push(h, a, s) == Put(h, a, Index(Cardinality(DOMAIN h[a].fields)), s)

\* builder.addSeries(name, points): this.config.series = this.config.series
\* || []; this.config.series.push(angular.extend({name: name, points: points}))
BuilderAddSeries ==
  /\ envSteps < MaxBuilderCalls
  /\ isObject(roots.builder)
  /\ envSteps' = envSteps + 1
  /\ LET b == roots.builder.ref
         h1 == IF Truthy(Get(heap, b, "series")) THEN heap
               ELSE Put(Append(heap, Cell(TRUE, NoFields)), b, "series", Ref(Len(heap) + 1))
         h2 == Install(h1, PointsLiteral)
         h3 == Append(h2, Cell(FALSE, ("name" :> Prim("added")) @@ ("points" :> Ref(Len(h2)))))
     IN heap' = Push(h3, Get(h1, b, "series").ref, Ref(Len(h3)))
  /\ lastCall' = SetterCall("addSeries", heap)
  /\ UNCHANGED <<roots, otherConfigVars>>

InitSetters == InitFactory

NextSetters ==
  \/ BuilderCreate
  \/ BuilderXAxis(AxisLiteral)
  \/ BuilderXAxisLabel
  \/ BuilderSeries(SeriesLiteral)
  \/ BuilderAddSeries
  \/ BuilderBuild

SpecSetters == InitSetters /\ [][NextSetters]_vars

\* C39: the setters of ConfigBuilder leave objects and arrays the caller
\* supplied as they were: after .series(arr).addSeries(...) or
\* .xAxis(obj).xAxisLabel(...) arr and obj are structurally unchanged
C39_SettersLeaveCallerObjects ==
  lastCall.fn \in {"xAxisLabel", "addSeries"} =>
    /\ Structure(heap, roots.options) = lastCall.base
    /\ Structure(heap, roots.series) = lastCall.override

(***************************************************************************)
(* jscPerformance.chunk and processInChunks.  The for loop of chunk is     *)
(* taken one iteration at a time; the processor returns normally.           *)
(***************************************************************************)
MaxLength == 4
MaxChunkSize == 3
\* more chunks than any array of MaxLength elements has: the loop of chunk
\* is followed up to this many
MaxChunks == MaxLength + 1

Min(a, b) == IF a < b THEN a ELSE b

\* processNext(): resolve() when index >= chunks.length, else
\* processor(chunks[index], index); index++; $timeout(processNext, delay)
processNext(job) ==
  IF job.index >= Len(job.chunks)
  THEN [job EXCEPT !.phase = "resolved"]
  ELSE [job EXCEPT !.phase = "waiting",
                   !.processed = Append(@, [chunk |-> job.chunks[job.index + 1],
                                            index |-> job.index]),
                   !.index = @ + 1]

\* the application calls processInChunks(array, processor, chunkSize, delay)
\* with an array of n elements: chunk(array, chunkSize) starts
AppProcessInChunks(n, size) ==
  /\ chunkJob.phase = "idle"
  /\ chunkJob' = [phase |-> "chunking", length |-> n, size |-> size, i |-> 0,
                  chunks |-> <<>>, index |-> 0, processed |-> <<>>]
  /\ UNCHANGED <<bus, otherUtilVars>>

\* one iteration of chunk's loop: chunks.push(array.slice(i, i + size));
\* i += size
ChunkLoop ==
  /\ chunkJob.phase = "chunking"
  /\ chunkJob.i < chunkJob.length
  /\ Len(chunkJob.chunks) < MaxChunks
  /\ chunkJob' = [chunkJob EXCEPT
                    !.chunks = Append(@, [from |-> chunkJob.i,
                                          count |-> Min(chunkJob.size,
                                                        chunkJob.length - chunkJob.i)]),
                    !.i = @ + chunkJob.size]
  /\ UNCHANGED <<bus, otherUtilVars>>

\* the loop never ends when size is 0: chunks grows until the engine cannot
\* extend the array, the allocation failure is thrown out of chunk and of
\* processInChunks, and no promise is ever made
ChunkExhaust ==
  /\ chunkJob.phase = "chunking"
  /\ chunkJob.i < chunkJob.length
  /\ Len(chunkJob.chunks) = MaxChunks
  /\ chunkJob' = [chunkJob EXCEPT !.phase = "exhausted"]
  /\ UNCHANGED <<bus, otherUtilVars>>

\* the loop ends (i >= array.length): chunk returns, the promise is made
\* and its executor calls processNext()
ChunkReturn ==
  /\ chunkJob.phase = "chunking"
  /\ chunkJob.i >= chunkJob.length
  /\ chunkJob' = processNext(chunkJob)
  /\ UNCHANGED <<bus, otherUtilVars>>

\* $timeout(processNext, delay) fires
ChunkTimeout ==
  /\ chunkJob.phase = "waiting"
  /\ chunkJob' = processNext(chunkJob)
  /\ UNCHANGED <<bus, otherUtilVars>>

InitChunks == InitFactory

NextChunks ==
  \/ \E n \in 0..MaxLength, size \in 0..MaxChunkSize : AppProcessInChunks(n, size)
  \/ ChunkLoop
  \/ ChunkExhaust
  \/ ChunkReturn
  \/ ChunkTimeout

\* the loop of chunk keeps running and every started $timeout fires
SpecChunks == InitChunks /\ [][NextChunks]_vars /\ WF_vars(ChunkLoop \/ ChunkExhaust \/ ChunkReturn \/ ChunkTimeout)

\* C40: processInChunks resolves its promise for every finite array and
\* every non-negative integer chunkSize, after the processor was called
\* once per chunk in index order
C40_ProcessInChunksResolves ==
  (chunkJob.phase = "chunking")
    ~> (/\ chunkJob.phase = "resolved"
        /\ Len(chunkJob.processed) = Len(chunkJob.chunks)
        /\ \A k \in DOMAIN chunkJob.processed : chunkJob.processed[k].index = k - 1)

====
